---- MODULE Spec2Model ----
(***************************************************************************)
(* Model of the request-orchestration layer of the AI image generator:     *)
(* the in-memory rate limiter (utils/rateLimiter.js), the API handler that *)
(* consults it (pages/api/generate-image.js), the client-side error        *)
(* classifier and retry executor (hooks/useErrorHandler.js), the image     *)
(* generation hook (hooks/useImageGeneration.js) and the request           *)
(* deduplicator of the performance utilities.                              *)
(***************************************************************************)
EXTENDS Integers, Sequences, FiniteSets, TLC

VARIABLES
  now,             \* Date.now(), in milliseconds
  limiter,         \* the RateLimiter instance: [maxRequests, windowMs]
  rateLimitStore,  \* the module-level Map: key -> [tokens, lastRefill]
  callLog,         \* history: per key, every checkRateLimit call and its result
  soloStore,       \* history: the store of a limiter that only sees Key1's calls
  keptStore,       \* history: the store as it would be had cleanup never run
  rawError,        \* the raw error handed to the client classifier
  clientError,     \* the processed error the classifier returned for it
  FAL_KEY,         \* process.env.FAL_KEY
  inflight,        \* per key, the handlers awaiting generateImagesWithRetry
  invocations,     \* history: the number of handler invocations
  generateCalls,   \* history: the number of generateImagesWithRetry calls
  lastLimit,       \* rateLimitResult of the invocation the latest step ran
  lastResponse,    \* the response the latest step sent, NoResponse if none
  lastHeaders,     \* the rate-limit headers the latest step set
  winCalls,        \* history: per key, limiter calls since the bucket's lastRefill
  winAdmitted,     \* history: per key, those of them that were allowed
  run,             \* the retry executor running and its options
  pc,              \* where the run is: start, awaiting, sleeping, resolved, rejected
  attempts,        \* currentAttempt (hook) or attempt (utils/api, generate-image)
  trace,           \* history: the calls, sleeps and callbacks of the run, in order
  failures,        \* history: the raw errors the operation failed with, in order
  thrown,          \* the error the run rejected with
  errorState,      \* the hook's error state
  onErrorArg,      \* the error the hook handed to onError
  results,         \* generateImagesWithRetry: what Promise.all resolved with
  returned,        \* generateImagesWithRetry: the URLs it returned
  settled,         \* generateImagesWithRetry: how each fal.run race settled
  yielded,         \* history: some fal.run call of the run gave a valid url
  seedInput,       \* the fan-out's options.seed, numImages and Math.random() draws
  seeds,           \* the seeds of the fal.run calls the fan-out issued
  hook,            \* useImageGeneration: state (prompt, images, loading, ...)
  generationHistory, \* useImageGeneration: generationHistoryRef.current
  currentRequestRef, \* useImageGeneration: currentRequestRef.current
  retryTimeoutRef, \* useErrorHandler: retryTimeoutRef.current
  lastOperationRef, \* useErrorHandler: lastOperationRef.current
  hookError,       \* useErrorHandler: error
  calls,           \* the generateImages and retry calls made, in order
  requests,        \* the fetches issued, in order
  timers,          \* the backoff timers set, in order
  pendingRequests, \* deduplicateRequests: the pendingRequests map
  promises,        \* deduplicateRequests: the requestFn invocations, in order
  dedupCalls       \* deduplicateRequests: the calls of the wrapper, in order

limVars == <<now, limiter, rateLimitStore, callLog, soloStore, keptStore>>
clsVars == <<rawError, clientError>>
apiVars == <<FAL_KEY, inflight, invocations, generateCalls, lastLimit,
             lastResponse, lastHeaders, winCalls, winAdmitted>>
seedVars == <<seedInput, seeds>>
retryVars == <<run, pc, attempts, trace, failures, thrown, errorState, onErrorArg,
               results, returned, settled, yielded, seedVars>>
hookVars == <<hook, generationHistory, currentRequestRef, retryTimeoutRef,
              lastOperationRef, hookError, calls, requests, timers>>
dedupVars == <<pendingRequests, promises, dedupCalls>>
clientVars == <<hookVars, dedupVars>>
vars == <<limVars, clsVars, apiVars, retryVars, clientVars>>

-----------------------------------------------------------------------------
(* Bounds of the model *)

MaxTime == 5000
MaxCalls == 4
MaxCapacity == 2
MaxInvocations == 3
MaxRetries == 2
MaxDedupCalls == 4
MaxGenerations == 2
HookMaxRetries == 1
MaxImages == 3

\* windowMs values the instance is constructed with (options.windowMs)
WindowChoices == {2000}
\* amounts by which the clock advances between two events
ClockSteps == {500, 1500}

-----------------------------------------------------------------------------
(* Requests and keys *)

NoAddr == ""

\* sample requests: forwarded, direct, and without any client address
Requests ==
  { [xff |-> "10.0.0.1", ip |-> "10.0.0.9"],
    [xff |-> NoAddr,     ip |-> "10.0.0.1"],
    [xff |-> NoAddr,     ip |-> NoAddr] }

defaultKeyGenerator(req) ==
  IF req.xff # NoAddr THEN req.xff
  ELSE IF req.ip # NoAddr THEN req.ip
  ELSE "unknown"

Keys == { defaultKeyGenerator(r) : r \in Requests }

-----------------------------------------------------------------------------
(* Arithmetic helpers *)

Min(a, b) == IF a < b THEN a ELSE b

\* Math.floor(a / b) for b > 0
FloorDiv(a, b) == a \div b

\* Math.ceil(a / b) for b > 0
CeilDiv(a, b) == -((-a) \div b)

-----------------------------------------------------------------------------
(* RateLimiter.checkRateLimit *)

Undefined == -1

\* a store whose keys all share the bucket that was written last
MapSetShared(store, key, bucket) ==
  [k \in (DOMAIN store) \cup {key} |-> bucket]

\* Map.set(key, bucket)
MapSet(store, key, bucket) ==
  [k \in (DOMAIN store) \cup {key} |-> IF k = key THEN bucket ELSE store[k]]

\* a refill that forgets the cap at maxRequests
RefillUncapped(lim, bucket, t) ==
  LET timePassed  == t - bucket.lastRefill
      tokensToAdd == FloorDiv(timePassed, lim.windowMs) * lim.maxRequests
  IN  IF tokensToAdd > 0
      THEN [tokens |-> bucket.tokens + tokensToAdd, lastRefill |-> t]
      ELSE bucket

\* a continuous drip: tokens credited in proportion to the time elapsed
RefillDrip(lim, bucket, t) ==
  LET timePassed  == t - bucket.lastRefill
      tokensToAdd == FloorDiv(timePassed * lim.maxRequests, lim.windowMs)
  IN  IF tokensToAdd > 0
      THEN [tokens |-> Min(lim.maxRequests, bucket.tokens + tokensToAdd),
            lastRefill |-> t]
      ELSE bucket

\* lines 57-64: the refill of a bucket at time t
Refill(lim, bucket, t) ==
  LET timePassed  == t - bucket.lastRefill
      tokensToAdd == FloorDiv(timePassed, lim.windowMs) * lim.maxRequests
  IN  IF tokensToAdd > 0
      THEN [tokens |-> Min(lim.maxRequests, bucket.tokens + tokensToAdd),
            lastRefill |-> t]
      ELSE bucket

\* Math.floor in place of Math.ceil
RetryAfterFloor(lim, bucket, t) ==
  FloorDiv(bucket.lastRefill + lim.windowMs - t, 1000)

\* line 82
RetryAfter(lim, bucket, t) ==
  CeilDiv(bucket.lastRefill + lim.windowMs - t, 1000)

\* the method reporting the token count read before the decrement
checkRateLimitStale(lim, store, key, t) ==
  LET fresh    == [tokens |-> lim.maxRequests, lastRefill |-> t]
      bucket   == IF key \in DOMAIN store THEN store[key] ELSE fresh
      refilled == Refill(lim, bucket, t)
  IN  IF refilled.tokens > 0
      THEN [store  |-> MapSet(store, key,
                         [refilled EXCEPT !.tokens = refilled.tokens - 1]),
            result |-> [allowed    |-> TRUE,
                        remaining  |-> refilled.tokens,
                        resetTime  |-> refilled.lastRefill + lim.windowMs,
                        limit      |-> lim.maxRequests,
                        retryAfter |-> Undefined]]
      ELSE [store  |-> MapSet(store, key, refilled),
            result |-> [allowed    |-> FALSE,
                        remaining  |-> 0,
                        resetTime  |-> refilled.lastRefill + lim.windowMs,
                        limit      |-> lim.maxRequests,
                        retryAfter |-> RetryAfter(lim, refilled, t)]]

\* the decrement made on a copy of the bucket: the store keeps the token
checkRateLimitLostUpdate(lim, store, key, t) ==
  LET fresh    == [tokens |-> lim.maxRequests, lastRefill |-> t]
      bucket   == IF key \in DOMAIN store THEN store[key] ELSE fresh
      refilled == Refill(lim, bucket, t)
  IN  IF refilled.tokens > 0
      THEN [store  |-> MapSet(store, key, refilled),
            result |-> [allowed    |-> TRUE,
                        remaining  |-> refilled.tokens - 1,
                        resetTime  |-> refilled.lastRefill + lim.windowMs,
                        limit      |-> lim.maxRequests,
                        retryAfter |-> Undefined]]
      ELSE [store  |-> MapSet(store, key, refilled),
            result |-> [allowed    |-> FALSE,
                        remaining  |-> 0,
                        resetTime  |-> refilled.lastRefill + lim.windowMs,
                        limit      |-> lim.maxRequests,
                        retryAfter |-> RetryAfter(lim, refilled, t)]]

\* the whole method: the store it leaves and the result it returns
checkRateLimit(lim, store, key, t) ==
  LET fresh    == [tokens |-> lim.maxRequests, lastRefill |-> t]
      bucket   == IF key \in DOMAIN store THEN store[key] ELSE fresh
      refilled == Refill(lim, bucket, t)
  IN  IF refilled.tokens > 0
      THEN [store  |-> MapSet(store, key,
                         [refilled EXCEPT !.tokens = refilled.tokens - 1]),
            result |-> [allowed    |-> TRUE,
                        remaining  |-> refilled.tokens - 1,
                        resetTime  |-> refilled.lastRefill + lim.windowMs,
                        limit      |-> lim.maxRequests,
                        retryAfter |-> Undefined]]
      ELSE [store  |-> MapSet(store, key, refilled),
            result |-> [allowed    |-> FALSE,
                        remaining  |-> 0,
                        resetTime  |-> refilled.lastRefill + lim.windowMs,
                        limit      |-> lim.maxRequests,
                        retryAfter |-> RetryAfter(lim, refilled, t)]]

\* a sweep that takes half a window of idleness for expiry
cleanupEarly(lim, store, t) ==
  LET expiredKeys == { k \in DOMAIN store :
                         t - store[k].lastRefill > lim.windowMs \div 2 }
  IN  [k \in (DOMAIN store) \ expiredKeys |-> store[k]]

\* RateLimiter.cleanup: the store without the buckets idle beyond 2 * windowMs
cleanup(lim, store, t) ==
  LET expiredKeys == { k \in DOMAIN store :
                         t - store[k].lastRefill > lim.windowMs * 2 }
  IN  [k \in (DOMAIN store) \ expiredKeys |-> store[k]]

-----------------------------------------------------------------------------
(* Messages                                                                *)
(* A message is the sequence of its words as written; toLowerCase maps     *)
(* every word to its lower-case form and includes() looks for a keyword,   *)
(* itself a sequence of words, as a contiguous part of the message.        *)

\* the words of the vocabulary that are not already lower-case
CasePairs ==
  { <<"Unauthorized", "unauthorized">>, <<"API", "api">>, <<"Key", "key">>,
    <<"Rate", "rate">>, <<"Limit", "limit">>, <<"INVALID", "invalid">>,
    <<"Invalid", "invalid">>, <<"Network", "network">>, <<"Error", "error">>,
    <<"Request", "request">>, <<"Server", "server">>, <<"No", "no">>,
    <<"Too", "too">>, <<"Prompt", "prompt">>, <<"Method", "method">>,
    <<"Api", "api">>, <<"Validation", "validation">>,
    <<"Authentication", "authentication">>, <<"Image", "image">>,
    <<"Failed", "failed">>, <<"Internal", "internal">>,
    <<"Forbidden", "forbidden">>, <<"Service", "service">>,
    <<"Not", "not">>, <<"C", "c">>, <<"D", "d">>, <<"The", "the">>,
    <<"Failed", "failed">>, <<"TypeError", "typeerror">>, <<"AbortError", "aborterror">>, <<"Bad", "bad">>, <<"Timeout", "timeout">>,
    <<"Unprocessable", "unprocessable">>, <<"Entity", "entity">>,
    <<"Many", "many">>, <<"Requests", "requests">>, <<"HTTP", "http">>, <<"ApiError", "apierror">>, <<"An", "an">>, <<"OPTIONS", "options">>, <<"Please", "please">>, <<"GET", "get">>,
    <<"POST", "post">>, <<"Allowed", "allowed">>, <<"Seed", "seed">>,
    <<"Number", "number">>, <<"Options", "options">>, <<"Type", "type">> }

toLowerCaseWord(w) ==
  IF \E p \in CasePairs : p[1] = w
  THEN (CHOOSE p \in CasePairs : p[1] = w)[2]
  ELSE w

\* String.prototype.toLowerCase
toLowerCase(msg) == [i \in 1..Len(msg) |-> toLowerCaseWord(msg[i])]

\* String.prototype.includes
includes(msg, kw) ==
  \E i \in 0..(Len(msg) - Len(kw)) : \A j \in 1..Len(kw) : msg[i + j] = kw[j]

-----------------------------------------------------------------------------
(* The client classifier: hooks/useErrorHandler.js                         *)

NoStatus == Undefined
NoName == <<>>

\* a categorizeError that tests the rate-limit rule after the network rule
categorizeErrorNetworkFirst(error) ==
  LET message == toLowerCase(error.message)
      name    == toLowerCase(error.name)
  IN  IF \/ includes(message, <<"configuration">>)
         \/ includes(message, <<"api", "key">>)
         \/ includes(message, <<"not", "configured">>)
         \/ includes(message, <<"missing", "credentials">>)
      THEN "configuration"
      ELSE IF \/ includes(message, <<"validation">>)
              \/ includes(message, <<"invalid">>)
              \/ includes(message, <<"required">>)
              \/ includes(message, <<"bad", "request">>)
              \/ error.status = 400
      THEN "validation"
      ELSE IF \/ includes(message, <<"unauthorized">>)
              \/ includes(message, <<"authentication">>)
              \/ error.status = 401
              \/ error.status = 403
      THEN "authentication"
      ELSE IF \/ includes(message, <<"network">>)
              \/ includes(message, <<"connection">>)
              \/ includes(message, <<"timeout">>)
              \/ includes(name, <<"network">>)
              \/ error.status = 0
      THEN "network"
      ELSE IF \/ includes(message, <<"rate", "limit">>)
              \/ includes(message, <<"too", "many", "requests">>)
              \/ error.status = 429
      THEN "rate_limit"
      ELSE IF \/ includes(message, <<"server">>)
              \/ includes(message, <<"internal">>)
              \/ (error.status >= 500 /\ error.status < 600)
      THEN "server"
      ELSE IF error.status >= 400 /\ error.status < 500
      THEN "client"
      ELSE "unknown"

\* lines 241-299
categorizeError(error) ==
  LET message == toLowerCase(error.message)
      name    == toLowerCase(error.name)
  IN  IF \/ includes(message, <<"configuration">>)
         \/ includes(message, <<"api", "key">>)
         \/ includes(message, <<"not", "configured">>)
         \/ includes(message, <<"missing", "credentials">>)
      THEN "configuration"
      ELSE IF \/ includes(message, <<"validation">>)
              \/ includes(message, <<"invalid">>)
              \/ includes(message, <<"required">>)
              \/ includes(message, <<"bad", "request">>)
              \/ error.status = 400
      THEN "validation"
      ELSE IF \/ includes(message, <<"unauthorized">>)
              \/ includes(message, <<"authentication">>)
              \/ error.status = 401
              \/ error.status = 403
      THEN "authentication"
      ELSE IF \/ includes(message, <<"rate", "limit">>)
              \/ includes(message, <<"too", "many", "requests">>)
              \/ error.status = 429
      THEN "rate_limit"
      ELSE IF \/ includes(message, <<"network">>)
              \/ includes(message, <<"connection">>)
              \/ includes(message, <<"timeout">>)
              \/ includes(name, <<"network">>)
              \/ error.status = 0
      THEN "network"
      ELSE IF \/ includes(message, <<"server">>)
              \/ includes(message, <<"internal">>)
              \/ (error.status >= 500 /\ error.status < 600)
      THEN "server"
      ELSE IF error.status >= 400 /\ error.status < 500
      THEN "client"
      ELSE "unknown"

\* lines 306-309
getRetryabilityForCategory(category) ==
  category \in {"network", "server", "rate_limit", "unknown"}

\* lines 316-374: the presentation fields of each category
enhanceErrorByCategory(error) ==
  LET enhancements ==
        [configuration  |-> [title |-> "Configuration Error", actionable |-> TRUE,  severity |-> "high"],
         validation     |-> [title |-> "Invalid Input",       actionable |-> TRUE,  severity |-> "medium"],
         authentication |-> [title |-> "Authentication Error", actionable |-> TRUE, severity |-> "high"],
         rate_limit     |-> [title |-> "Rate Limit Exceeded", actionable |-> FALSE, severity |-> "medium"],
         network        |-> [title |-> "Connection Problem",  actionable |-> FALSE, severity |-> "medium"],
         server         |-> [title |-> "Server Error",        actionable |-> FALSE, severity |-> "high"],
         client         |-> [title |-> "Request Error",       actionable |-> TRUE,  severity |-> "medium"],
         unknown        |-> [title |-> "Unexpected Error",    actionable |-> FALSE, severity |-> "medium"]]
      enhancement ==
        IF error.category \in DOMAIN enhancements
        THEN enhancements[error.category] ELSE enhancements["unknown"]
  IN  [message    |-> error.message,
       name       |-> error.name,
       status     |-> error.status,
       category   |-> error.category,
       retryable  |-> error.retryable,
       context    |-> error.context,
       title      |-> enhancement.title,
       actionable |-> enhancement.actionable,
       severity   |-> enhancement.severity]

\* 'An unexpected error occurred'
BaseErrorMessage == <<"An", "unexpected", "error", "occurred">>

\* a processError that copies the message and status of a plain object but
\* not its name
processErrorDropsName(errorInput, context) ==
  LET error ==
        IF errorInput.form = "string"
        THEN [message |-> errorInput.message, name |-> NoName,
              status |-> NoStatus]
        ELSE IF errorInput.form = "Error"
        THEN [message |-> errorInput.message, name |-> errorInput.name,
              status |-> NoStatus]
        ELSE [message |-> IF errorInput.hasMessage THEN errorInput.message
                          ELSE BaseErrorMessage,
              name    |-> NoName,
              status  |-> errorInput.status]
      category == categorizeError(error)
  IN  enhanceErrorByCategory(
        [message   |-> error.message,
         name      |-> error.name,
         status    |-> error.status,
         category  |-> category,
         retryable |-> getRetryabilityForCategory(category),
         context   |-> context])

\* lines 189-234.  errorInput is [form, hasMessage, message, name, status]:
\* a string, an Error instance (whose own status property is not copied) or
\* a plain object (whose properties are spread over the base error).
processError(errorInput, context) ==
  LET error ==
        IF errorInput.form = "string"
        THEN [message |-> errorInput.message, name |-> NoName,
              status |-> NoStatus]
        ELSE IF errorInput.form = "Error"
        THEN [message |-> errorInput.message, name |-> errorInput.name,
              status |-> NoStatus]
        ELSE [message |-> IF errorInput.hasMessage THEN errorInput.message
                          ELSE BaseErrorMessage,
              name    |-> errorInput.name,
              status  |-> errorInput.status]
      category == categorizeError(error)
  IN  enhanceErrorByCategory(
        [message   |-> error.message,
         name      |-> error.name,
         status    |-> error.status,
         category  |-> category,
         retryable |-> getRetryabilityForCategory(category),
         context   |-> context])

-----------------------------------------------------------------------------
(* Request validation: utils/validation.js, utils/config.js               *)

maxPromptLength == 500

\* validateHttpMethod(method, ['POST'])
validateHttpMethod(method) ==
  IF method # "POST"
  THEN [isValid |-> FALSE,
        message |-> <<"Method", method, "not", "allowed", "Allowed", "methods", "POST">>,
        field |-> "method", code |-> "METHOD_NOT_ALLOWED"]
  ELSE [isValid |-> TRUE, message |-> <<>>, field |-> "", code |-> ""]

Invalid(message, field, code) ==
  [isValid |-> FALSE, message |-> message, field |-> field, code |-> code]

Valid == [isValid |-> TRUE, message |-> <<>>, field |-> "", code |-> ""]

\* validatePrompt.  A prompt is [type, length, trimmedLength, inappropriate]
validatePrompt(prompt) ==
  IF prompt.type = "undefined" \/ (prompt.type = "string" /\ prompt.length = 0)
  THEN Invalid(<<"Prompt", "is", "required">>, "prompt", "REQUIRED")
  ELSE IF prompt.type # "string"
  THEN Invalid(<<"Prompt", "must", "be", "a", "string">>, "prompt", "INVALID_TYPE")
  ELSE IF prompt.trimmedLength = 0
  THEN Invalid(<<"Prompt", "cannot", "be", "empty">>, "prompt", "EMPTY")
  ELSE IF prompt.trimmedLength > maxPromptLength
  THEN Invalid(<<"Prompt", "must", "be", "500", "characters", "or", "less">>,
               "prompt", "TOO_LONG")
  ELSE IF prompt.inappropriate
  THEN Invalid(<<"Prompt", "contains", "inappropriate", "content">>,
               "prompt", "INAPPROPRIATE_CONTENT")
  ELSE Valid

\* validateGenerateImageRequest.  A body is [isObject, prompt, seed,
\* num_images]; an option that is not given is Undefined.
validateGenerateImageRequest(body) ==
  IF ~body.isObject
  THEN Invalid(<<"Request", "body", "must", "be", "an", "object">>, "", "INVALID_BODY")
  ELSE IF ~validatePrompt(body.prompt).isValid
  THEN validatePrompt(body.prompt)
  ELSE IF body.seed # Undefined /\ body.seed < 0
  THEN Invalid(<<"Seed", "must", "be", "a", "non-negative", "integer">>,
               "options.seed", "INVALID_SEED")
  ELSE IF body.num_images # Undefined /\ (body.num_images < 1 \/ body.num_images > 10)
  THEN Invalid(<<"Number", "of", "images", "must", "be", "between", "1", "and", "10">>,
               "options.num_images", "INVALID_COUNT")
  ELSE Valid

-----------------------------------------------------------------------------
(* The API handler: pages/api/generate-image.js                            *)

NoCategory == "none"

\* sendErrorResponse: the JSON body and status of an error response
sendErrorResponse(errorInfo) ==
  [status     |-> errorInfo.status,
   error      |-> errorInfo.message,
   category   |-> errorInfo.category,
   retryable  |-> errorInfo.retryable,
   retryAfter |-> errorInfo.retryAfter]

\* res.status(200): the preflight answer and the success answer
okResponse ==
  [status |-> 200, error |-> <<>>, category |-> NoCategory,
   retryable |-> FALSE, retryAfter |-> Undefined]

\* processApiError: the error response for an error thrown in the handler
processApiError(error) ==
  LET lowerMessage == toLowerCase(error.message)
  IN  IF includes(lowerMessage, <<"timeout">>) \/ includes(lowerMessage, <<"network">>)
      THEN [message |-> <<"Request", "timed", "out", "Please", "try", "again">>,
            category |-> "network", retryable |-> TRUE, status |-> 408,
            retryAfter |-> Undefined]
      ELSE IF includes(lowerMessage, <<"unauthorized">>) \/ includes(lowerMessage, <<"api", "key">>)
      THEN [message |-> <<"Authentication", "failed", "Please", "check", "API", "configuration">>,
            category |-> "authentication", retryable |-> FALSE, status |-> 401,
            retryAfter |-> Undefined]
      ELSE IF includes(lowerMessage, <<"rate", "limit">>) \/ includes(lowerMessage, <<"quota">>)
      THEN [message |-> <<"Rate", "limit", "exceeded", "Please", "wait", "before", "trying", "again">>,
            category |-> "rate_limit", retryable |-> TRUE, status |-> 429,
            retryAfter |-> Undefined]
      ELSE IF includes(lowerMessage, <<"invalid">>) \/ includes(lowerMessage, <<"validation">>)
      THEN [message |-> <<"Invalid", "request", "Please", "check", "your", "input">>,
            category |-> "validation", retryable |-> TRUE, status |-> 400,
            retryAfter |-> Undefined]
      ELSE IF includes(lowerMessage, <<"no", "images">>) \/ includes(lowerMessage, <<"generation", "failed">>)
      THEN [message |-> <<"Image", "generation", "failed", "Please", "try", "a", "different", "prompt">>,
            category |-> "generation", retryable |-> TRUE, status |-> 422,
            retryAfter |-> Undefined]
      ELSE [message |-> IF error.message # <<>> THEN error.message
                        ELSE <<"Failed", "to", "generate", "images">>,
            category |-> "server", retryable |-> TRUE,
            status |-> IF error.status \in {NoStatus, 0} THEN 500 ELSE error.status,
            retryAfter |-> Undefined]

\* a handler that lets a denied request through
rateLimitedNever(rateLimitResult) == FALSE

\* line 119
rateLimited(rateLimitResult) == ~rateLimitResult.allowed

\* String(n), and a header that is not set
String(n) == <<"String", n>>
NoHeader == <<>>
NoHeaders == [limit |-> NoHeader, remaining |-> NoHeader, retryAfter |-> NoHeader]

\* utils/config.js, isConfigured
isConfigured(apiKey) == apiKey # "" /\ apiKey # "your_fal_api_key_here"

NoResult == [allowed |-> TRUE, remaining |-> Undefined, resetTime |-> Undefined,
             limit |-> Undefined, retryAfter |-> Undefined]

\* lines 78-177: the handler from its entry to its first await.  It either
\* responds at once or calls generateImagesWithRetry and awaits it.
handler(req, lim, store, apiKey, t) ==
  LET answered(response, newStore, rl, headers) ==
        [store |-> newStore, rateLimitResult |-> rl, reachedLimiter |-> rl # NoResult,
         responded |-> TRUE, response |-> response, headers |-> headers,
         generating |-> FALSE]
      out == checkRateLimit(lim, store, defaultKeyGenerator(req), t)
      rl  == out.result
      \* lines 137-139
      rateLimitHeaders == [limit      |-> String(rl.limit),
                           remaining  |-> String(rl.remaining),
                           retryAfter |-> NoHeader]
      inputValidation == validateGenerateImageRequest(req.body)
  IN  IF req.method = "OPTIONS"
      THEN answered(okResponse, store, NoResult, NoHeaders)
      ELSE IF ~validateHttpMethod(req.method).isValid
      THEN answered(sendErrorResponse(
                      [message |-> validateHttpMethod(req.method).message,
                       category |-> "validation", status |-> 405,
                       retryable |-> FALSE, retryAfter |-> Undefined]),
                    store, NoResult, NoHeaders)
      ELSE IF rateLimited(rl)
      THEN answered(sendErrorResponse(
                      [message |-> <<"Too", "many", "requests", "Please", "wait",
                                     "before", "trying", "again">>,
                       category |-> "rate_limit", status |-> 429,
                       retryable |-> TRUE, retryAfter |-> rl.retryAfter]),
                    out.store, rl,
                    [rateLimitHeaders EXCEPT !.retryAfter = String(rl.retryAfter)])
      ELSE IF ~isConfigured(apiKey)
      THEN answered(sendErrorResponse(
                      [message |-> <<"Server", "not", "properly", "configured",
                                     "Please", "check", "API", "key", "setup">>,
                       category |-> "configuration", status |-> 500,
                       retryable |-> FALSE, retryAfter |-> Undefined]),
                    out.store, rl, rateLimitHeaders)
      ELSE IF ~inputValidation.isValid
      THEN answered(sendErrorResponse(
                      [message |-> inputValidation.message,
                       category |-> "validation", status |-> 400,
                       retryable |-> TRUE, retryAfter |-> Undefined]),
                    out.store, rl, rateLimitHeaders)
      ELSE [store |-> out.store, rateLimitResult |-> rl, reachedLimiter |-> TRUE,
            responded |-> FALSE, response |-> okResponse,
            headers |-> rateLimitHeaders, generating |-> TRUE]

-----------------------------------------------------------------------------
(* Backoff delays and retry decisions: hooks/useErrorHandler.js,           *)
(* utils/api.js, pages/api/generate-image.js                               *)

RECURSIVE Pow2(_)
\* Math.pow(2, n) for n >= 0
Pow2(n) == IF n <= 0 THEN 1 ELSE 2 * Pow2(n - 1)

\* a delay that is never capped
calculateBackoffDelayUncapped(attempt, baseDelay, random) ==
  LET exponentialDelay == baseDelay * Pow2(attempt - 1)
      jitter == (random * exponentialDelay) \div 10000
  IN  exponentialDelay + jitter

\* useErrorHandler.js lines 382-387.  random is Math.random() in thousandths;
\* the delays and the random values of the model make the division exact.
calculateBackoffDelay(attempt, baseDelay, random) ==
  LET exponentialDelay == baseDelay * Pow2(attempt - 1)
      jitter == (random * exponentialDelay) \div 10000
  IN  Min(exponentialDelay + jitter, 30000)

\* utils/api.js lines 86-88
apiCalculateBackoffDelay(attempt, baseDelay) ==
  Min(baseDelay * Pow2(attempt - 1), 30000)

\* generate-image.js line 225
generateBackoffDelay(attempt) == Min(1000 * Pow2(attempt - 1), 5000)

NoCode == ""

\* utils/api.js lines 95-112
isRetryableError(error) ==
  IF error.isApiError THEN error.retryable
  ELSE IF error.code \in {"ECONNRESET", "ETIMEDOUT", "ENOTFOUND"} THEN TRUE
  ELSE IF error.status # NoStatus /\ error.status # 0
  THEN error.status \in {408, 429, 500, 502, 503, 504}
  ELSE FALSE

\* generate-image.js lines 303-319
isNonRetryableError(error) ==
  LET message == toLowerCase(error.message)
  IN  \/ includes(message, <<"invalid">>)
      \/ includes(message, <<"unauthorized">>)
      \/ includes(message, <<"forbidden">>)
      \/ includes(message, <<"rate", "limit">>)
      \/ includes(message, <<"quota">>)
      \/ includes(message, <<"billing">>)
      \/ error.status \in {400, 401, 403, 429}

\* a hook that gives up one attempt early
executeGivesUpEarly(processedError, currentAttempt, operationMaxRetries, autoRetry) ==
  \/ currentAttempt >= operationMaxRetries
  \/ ~processedError.retryable
  \/ ~autoRetry

\* useErrorHandler.js line 114: the failure is handled and thrown
executeGivesUp(processedError, currentAttempt, operationMaxRetries, autoRetry) ==
  \/ currentAttempt > operationMaxRetries
  \/ ~processedError.retryable
  \/ ~autoRetry

\* onRetry announced before the first invocation too
onRetryFiresAlways(currentAttempt) == currentAttempt >= 0

\* useErrorHandler.js line 89 (with an onRetry callback given)
onRetryFires(currentAttempt) == currentAttempt > 0

\* a loop that stops one attempt before the budget
retryWithBackoffGivesUpEarly(error, attempt, maxAttempts) ==
  ~isRetryableError(error) \/ attempt + 1 >= maxAttempts

\* utils/api.js line 131
retryWithBackoffGivesUp(error, attempt, maxAttempts) ==
  ~isRetryableError(error) \/ attempt = maxAttempts

\* a loop that runs one attempt more than its budget
generateGivesUpLate(error, attempt, maxRetries) ==
  isNonRetryableError(error) \/ attempt = maxRetries + 1

\* generate-image.js lines 284-291
generateGivesUp(error, attempt, maxRetries) ==
  isNonRetryableError(error) \/ attempt = maxRetries

\* what a fal.run call resolves with: [defined, hasImages, images], an image
\* being [url]; NoUrl is a missing or empty url
NoUrl == 0
NullResult == [defined |-> FALSE, hasImages |-> FALSE, images |-> <<>>]
NoImagesResult == [defined |-> TRUE, hasImages |-> FALSE, images |-> <<>>]
EmptyImagesResult == [defined |-> TRUE, hasImages |-> TRUE, images |-> <<>>]
ImageResult(url) == [defined |-> TRUE, hasImages |-> TRUE, images |-> <<[url |-> url]>>]

\* generate-image.js line 262, negated
validResult(result) ==
  /\ result.defined
  /\ result.hasImages
  /\ result.images # <<>>
  /\ result.images[1].url # NoUrl

\* results.map(...) of lines 261-267
mappedUrls(rs) ==
  [i \in DOMAIN rs |-> IF validResult(rs[i]) THEN rs[i].images[1].url ELSE NoUrl]

\* the map without the filter
imageUrlsUnfiltered(rs) == mappedUrls(rs)

\* generate-image.js lines 261-267: results.map(...).filter(Boolean)
imageUrls(rs) == SelectSeq(mappedUrls(rs), LAMBDA u : u # NoUrl)

\* handleError(processedError, context): the processed error, a plain
\* object, is handed to processError again
AsObject(processedError) ==
  [form |-> "object", hasMessage |-> TRUE, message |-> processedError.message,
   name |-> processedError.name, status |-> processedError.status]

-----------------------------------------------------------------------------
(* The client's request: hooks/useImageGeneration.js                       *)

\* a context that adds nothing to the processed error
EmptyContext == [attempt |-> 0]

\* `${response.status}: ${response.statusText}` as words
statusLine(status) ==
  IF status = 400 THEN <<"400", "Bad", "Request">>
  ELSE IF status = 401 THEN <<"401", "Unauthorized">>
  ELSE IF status = 403 THEN <<"403", "Forbidden">>
  ELSE IF status = 405 THEN <<"405", "Method", "Not", "Allowed">>
  ELSE IF status = 408 THEN <<"408", "Request", "Timeout">>
  ELSE IF status = 422 THEN <<"422", "Unprocessable", "Entity">>
  ELSE IF status = 429 THEN <<"429", "Too", "Many", "Requests">>
  ELSE IF status = 500 THEN <<"500", "Internal", "Server", "Error">>
  ELSE <<"0">>

\* lines 199-202: the Error generateFn throws for a response that is not ok
generateFnError(response) ==
  [form |-> "Error", hasMessage |-> TRUE,
   message |-> IF response.error # <<>> THEN response.error
               ELSE <<"HTTP">> \o statusLine(response.status),
   name |-> <<"Error">>, status |-> NoStatus]

\* lines 243-249 with useErrorHandler.js lines 103-117: the error the hook
\* records for the response
recordedError(response) ==
  processError(generateFnError(response), EmptyContext)

-----------------------------------------------------------------------------
(* The rate limiter called directly: specification Spec *)

EmptyStore == [k \in {} |-> 0]

Key1 == "10.0.0.1"

RECURSIVE SumOver(_, _)
SumOver(f, S) ==
  IF S = {} THEN 0
  ELSE LET x == CHOOSE y \in S : TRUE IN f[x] + SumOver(f, S \ {x})

TotalCalls(log) == SumOver([k \in Keys |-> Len(log[k])], Keys)

\* no error processed yet
NoError == [category |-> "none"]
NoInput == [form |-> "none"]

ClassifierIdle ==
  /\ rawError = NoInput
  /\ clientError = NoError

LimiterInit ==
  /\ now = 0
  /\ limiter \in [maxRequests : 1..MaxCapacity, windowMs : WindowChoices]
  /\ rateLimitStore = EmptyStore
  /\ callLog = [k \in Keys |-> <<>>]
  /\ soloStore = EmptyStore
  /\ keptStore = EmptyStore

NoResponse ==
  [status |-> 0, error |-> <<>>, category |-> NoCategory,
   retryable |-> FALSE, retryAfter |-> Undefined]

\* no handler is ever invoked
ApiIdle ==
  /\ FAL_KEY = "fal-key"
  /\ inflight = [k \in Keys |-> 0]
  /\ invocations = 0
  /\ generateCalls = 0
  /\ lastLimit = NoResult
  /\ lastResponse = NoResponse
  /\ lastHeaders = NoHeaders
  /\ winCalls = [k \in Keys |-> 0]
  /\ winAdmitted = [k \in Keys |-> 0]

\* useImageGeneration.js lines 27-33: the state the hook starts with
NoRequest == 0
NoTimer == 0
NoOperation == 0
NoMetadata == [prompt |-> <<>>]
InitialHookState ==
  [prompt |-> <<>>, images |-> <<>>, loading |-> FALSE,
   generationId |-> NoRequest, metadata |-> NoMetadata]

\* no generation is ever asked of the hook
HookIdle ==
  /\ hook = InitialHookState
  /\ generationHistory = <<>>
  /\ currentRequestRef = NoRequest
  /\ retryTimeoutRef = NoTimer
  /\ lastOperationRef = NoOperation
  /\ hookError = NoError
  /\ calls = <<>>
  /\ requests = <<>>
  /\ timers = <<>>

\* no wrapped function is ever called
DedupIdle ==
  /\ pendingRequests = <<>>
  /\ promises = <<>>
  /\ dedupCalls = <<>>

ClientIdle == HookIdle /\ DedupIdle

NoRun == [executor |-> "none"]

\* no fan-out computes its seeds
NoSeedInput == [numImages |-> 0]
SeedIdle ==
  /\ seedInput = NoSeedInput
  /\ seeds = <<>>

\* no retry executor runs
RunIdle ==
  /\ run = NoRun
  /\ pc = "idle"
  /\ attempts = 0
  /\ trace = <<>>
  /\ failures = <<>>
  /\ thrown = NoError
  /\ errorState = NoError
  /\ onErrorArg = NoError
  /\ results = <<>>
  /\ returned = <<>>
  /\ settled = <<>>
  /\ yielded = FALSE

RetryIdle == RunIdle /\ SeedIdle

Init ==
  /\ LimiterInit
  /\ ClassifierIdle
  /\ ApiIdle
  /\ RetryIdle
  /\ ClientIdle

\* Date.now() advances by one of the steps
TickClock(steps) ==
  \E d \in steps :
    /\ now + d <= MaxTime
    /\ now' = now + d

\* time passes
Tick ==
  /\ TickClock(ClockSteps)
  /\ UNCHANGED <<limiter, rateLimitStore, callLog, soloStore, keptStore, clsVars, apiVars, retryVars, clientVars>>

\* a request reaches limiter.checkRateLimit(req)
CheckRateLimit ==
  /\ TotalCalls(callLog) < MaxCalls
  /\ \E req \in Requests :
       LET key == defaultKeyGenerator(req)
           out == checkRateLimit(limiter, rateLimitStore, key, now)
       IN  /\ rateLimitStore' = out.store
           /\ callLog' = [callLog EXCEPT ![key] =
                           Append(@, [at |-> now, result |-> out.result])]
           /\ soloStore' = IF key = Key1
                           THEN checkRateLimit(limiter, soloStore, key, now).store
                           ELSE soloStore
           /\ keptStore' = checkRateLimit(limiter, keptStore, key, now).store
  /\ UNCHANGED <<now, limiter, clsVars, apiVars, retryVars, clientVars>>

\* the periodic sweep (setInterval in createRateLimiter)
Cleanup ==
  /\ rateLimitStore' = cleanup(limiter, rateLimitStore, now)
  /\ soloStore' = cleanup(limiter, soloStore, now)
  /\ UNCHANGED <<now, limiter, callLog, keptStore, clsVars, apiVars, retryVars, clientVars>>

Next == Tick \/ CheckRateLimit \/ Cleanup

Spec == Init /\ [][Next]_vars

-----------------------------------------------------------------------------
(* Two RateLimiter instances on the module-level store: specification      *)
(* SpecShared. One is constructed with options, the other is the global    *)
(* instance behind the exported checkRateLimit.                            *)

\* utils/config.js, app.rateLimitPerMinute
rateLimitPerMinute == 10

\* rateLimiter.js line 18, the default of windowMs
defaultWindowMs == 60000

\* new RateLimiter()
globalRateLimiter ==
  [maxRequests |-> rateLimitPerMinute, windowMs |-> defaultWindowMs]

\* a request reaches the exported checkRateLimit(req)
CheckGlobal ==
  /\ TotalCalls(callLog) < MaxCalls
  /\ \E req \in Requests :
       LET key == defaultKeyGenerator(req)
           out == checkRateLimit(globalRateLimiter, rateLimitStore, key, now)
       IN  /\ rateLimitStore' = out.store
           /\ callLog' = [callLog EXCEPT ![key] =
                           Append(@, [at |-> now, result |-> out.result])]
           /\ soloStore' = IF key = Key1
                           THEN checkRateLimit(globalRateLimiter, soloStore, key, now).store
                           ELSE soloStore
           /\ keptStore' = checkRateLimit(globalRateLimiter, keptStore, key, now).store
  /\ UNCHANGED <<now, limiter, clsVars, apiVars, retryVars, clientVars>>

NextShared == Tick \/ CheckRateLimit \/ CheckGlobal

SpecShared == Init /\ [][NextShared]_vars

-----------------------------------------------------------------------------
(* The classifier applied to raw errors: specification SpecClassify *)

\* the phrases messages are made of: every keyword of the classifier, some
\* in mixed case, a fragment of a two-word keyword and a neutral phrase
Phrases ==
  { <<"configuration">>, <<"API", "key">>, <<"not", "configured">>,
    <<"missing", "credentials">>,
    <<"validation">>, <<"Invalid">>, <<"required">>, <<"bad", "request">>,
    <<"Unauthorized">>, <<"authentication">>,
    <<"Rate", "limit">>, <<"too", "many", "requests">>,
    <<"network">>, <<"connection">>, <<"timeout">>,
    <<"server">>, <<"internal">>,
    <<"key">>, <<"something", "failed">> }

\* the empty message, one phrase, or two phrases one after the other
Messages == {<<>>} \cup Phrases \cup { p \o q : p, q \in Phrases }

Statuses == {NoStatus, 0, 200, 400, 401, 403, 404, 429, 500, 599, 600}

ErrorNames == { <<"Error">>, <<"Network", "Error">> }

ErrorInputs ==
  { [form |-> "string", hasMessage |-> TRUE, message |-> msg,
     name |-> NoName, status |-> NoStatus] : msg \in Messages }
  \cup
  { [form |-> "Error", hasMessage |-> TRUE, message |-> msg,
     name |-> nm, status |-> st] :
       msg \in Messages, nm \in ErrorNames, st \in Statuses }
  \cup
  { [form |-> "object", hasMessage |-> TRUE, message |-> msg,
     name |-> nm, status |-> st] :
       msg \in Messages, nm \in {NoName, <<"Network", "Error">>},
       st \in Statuses }
  \cup
  { [form |-> "object", hasMessage |-> FALSE, message |-> <<>>,
     name |-> NoName, status |-> st] : st \in Statuses }

LimiterIdle ==
  /\ now = 0
  /\ limiter = [maxRequests |-> 1, windowMs |-> 60000]
  /\ rateLimitStore = EmptyStore
  /\ callLog = [k \in Keys |-> <<>>]
  /\ soloStore = EmptyStore
  /\ keptStore = EmptyStore

InitClassify ==
  /\ LimiterIdle
  /\ rawError \in ErrorInputs
  /\ clientError = NoError
  /\ ApiIdle
  /\ RetryIdle
  /\ ClientIdle

\* handleError: the raw error is processed
ProcessError ==
  /\ clientError = NoError
  /\ clientError' = processError(rawError, EmptyContext)
  /\ UNCHANGED <<rawError, limVars, apiVars, retryVars, clientVars>>

NextClassify == ProcessError

SpecClassify == InitClassify /\ [][NextClassify]_vars

-----------------------------------------------------------------------------
(* Concurrent invocations of the API handler: specification SpecHandler *)

\* prompts and bodies the handler is sent
GoodPrompt == [type |-> "string", length |-> 12, trimmedLength |-> 11,
               inappropriate |-> FALSE]
NoPrompt == [type |-> "undefined", length |-> 0, trimmedLength |-> 0,
             inappropriate |-> FALSE]

Bodies ==
  { [isObject |-> TRUE,  prompt |-> GoodPrompt, seed |-> Undefined, num_images |-> Undefined],
    [isObject |-> TRUE,  prompt |-> NoPrompt,   seed |-> Undefined, num_images |-> Undefined],
    [isObject |-> TRUE,  prompt |-> GoodPrompt, seed |-> 7,         num_images |-> 11],
    [isObject |-> FALSE, prompt |-> NoPrompt,   seed |-> Undefined, num_images |-> Undefined] }

HandlerRequests ==
  { [method |-> "POST", xff |-> r.xff, ip |-> r.ip, body |-> b] :
      r \in Requests, b \in Bodies }
  \cup
  { [method |-> mt, xff |-> NoAddr, ip |-> Key1,
     body |-> [isObject |-> FALSE, prompt |-> NoPrompt, seed |-> Undefined,
               num_images |-> Undefined]] : mt \in {"GET", "OPTIONS"} }

\* what generateImagesWithRetry throws when it fails
ThrownErrors ==
  { [message |-> <<"Request", "timeout">>, status |-> NoStatus],
    [message |-> <<"No", "images", "were", "generated", "successfully">>, status |-> NoStatus],
    [message |-> <<"Unauthorized">>, status |-> 401],
    [message |-> <<"Invalid", "prompt">>, status |-> 400],
    [message |-> <<"Rate", "limit", "exceeded">>, status |-> 429],
    [message |-> <<"Forbidden">>, status |-> 403],
    [message |-> <<"Internal", "server", "error">>, status |-> 500] }

\* the clock between the steps of the handlers: three quarters of a window
HandlerClockSteps == {1500}

HandlerInit ==
  /\ LimiterInit
  /\ ClassifierIdle
  /\ FAL_KEY \in {"", "your_fal_api_key_here", "fal-key"}
  /\ inflight = [k \in Keys |-> 0]
  /\ invocations = 0
  /\ generateCalls = 0
  /\ lastLimit = NoResult
  /\ lastResponse = NoResponse
  /\ lastHeaders = NoHeaders
  /\ winCalls = [k \in Keys |-> 0]
  /\ winAdmitted = [k \in Keys |-> 0]
  /\ RetryIdle
  /\ ClientIdle

\* a request arrives: the handler runs up to its first await
HandlerStart ==
  /\ invocations < MaxInvocations
  /\ \E req \in HandlerRequests :
       LET k == defaultKeyGenerator(req)
           h == handler(req, limiter, rateLimitStore, FAL_KEY, now)
           newWindow == \/ k \notin DOMAIN rateLimitStore
                        \/ h.store[k].lastRefill # rateLimitStore[k].lastRefill
           admitted == IF h.rateLimitResult.allowed THEN 1 ELSE 0
       IN  /\ rateLimitStore' = h.store
           /\ invocations' = invocations + 1
           /\ lastLimit' = h.rateLimitResult
           /\ lastHeaders' = h.headers
           /\ lastResponse' = IF h.responded THEN h.response ELSE NoResponse
           /\ inflight' = IF h.generating
                          THEN [inflight EXCEPT ![k] = @ + 1] ELSE inflight
           /\ generateCalls' = IF h.generating
                               THEN generateCalls + 1 ELSE generateCalls
           /\ winCalls' = IF ~h.reachedLimiter THEN winCalls
                          ELSE IF newWindow THEN [winCalls EXCEPT ![k] = 1]
                          ELSE [winCalls EXCEPT ![k] = @ + 1]
           /\ winAdmitted' = IF ~h.reachedLimiter THEN winAdmitted
                             ELSE IF newWindow
                             THEN [winAdmitted EXCEPT ![k] = admitted]
                             ELSE [winAdmitted EXCEPT ![k] = @ + admitted]
  /\ UNCHANGED <<now, limiter, callLog, soloStore, keptStore, clsVars, FAL_KEY, retryVars, clientVars>>

\* the generateImagesWithRetry call of an admitted request settles: the
\* handler answers with the images or with the processed error
HandlerFinish ==
  /\ \E k \in Keys :
       /\ inflight[k] > 0
       /\ inflight' = [inflight EXCEPT ![k] = @ - 1]
       /\ \/ lastResponse' = okResponse
          \/ \E e \in ThrownErrors :
               lastResponse' = sendErrorResponse(processApiError(e))
  /\ lastLimit' = NoResult
  /\ lastHeaders' = NoHeaders
  /\ UNCHANGED <<limVars, clsVars, FAL_KEY, invocations, generateCalls,
                 winCalls, winAdmitted, retryVars, clientVars>>

\* time passes while handlers wait; no response is sent
HandlerTick ==
  /\ TickClock(HandlerClockSteps)
  /\ lastLimit' = NoResult
  /\ lastResponse' = NoResponse
  /\ lastHeaders' = NoHeaders
  /\ UNCHANGED <<limiter, rateLimitStore, callLog, soloStore, keptStore, clsVars, FAL_KEY,
                 inflight, invocations, generateCalls, winCalls, winAdmitted,
                 retryVars, clientVars>>

NextHandler == HandlerTick \/ HandlerStart \/ HandlerFinish

SpecHandler == HandlerInit /\ [][NextHandler]_vars

-----------------------------------------------------------------------------
(* One run of a retry executor: specification SpecRetry                    *)
(* executeWithErrorHandling (hooks/useErrorHandler.js), retryWithBackoff   *)
(* (utils/api.js) or generateImagesWithRetry (pages/api/generate-image.js) *)

\* values of Math.random(), in thousandths
Randoms == {0, 500, 990}

\* the errors an operation fails with: [form, hasMessage, message, name,
\* status, isApiError, code, retryable]
PlainError(message, name) ==
  [form |-> "Error", hasMessage |-> TRUE, message |-> message, name |-> name,
   status |-> NoStatus, isApiError |-> FALSE, code |-> NoCode,
   retryable |-> FALSE]

\* new ApiError(message, status, null, retryable)
ApiError(message, status, retryable) ==
  [form |-> "Error", hasMessage |-> TRUE, message |-> message,
   name |-> <<"ApiError">>, status |-> status, isApiError |-> TRUE,
   code |-> NoCode, retryable |-> retryable]

\* 'Request timeout', generate-image.js line 253
TimeoutError == PlainError(<<"Request", "timeout">>, <<"Error">>)

\* 'No images were generated successfully', generate-image.js line 270
NoImagesError ==
  PlainError(<<"No", "images", "were", "generated", "successfully">>, <<"Error">>)

RetryErrors ==
  { PlainError(<<"Unauthorized", "invalid", "api", "key">>, <<"Error">>),
    PlainError(<<"Network", "connection", "failed">>, <<"Error">>),
    PlainError(<<"Rate", "limit", "exceeded">>, <<"Error">>),
    PlainError(<<"API", "key", "not", "configured">>, <<"Error">>),
    PlainError(<<"Request", "failed">>, <<"Network", "Error">>),
    [PlainError(<<"socket", "hang", "up">>, <<"Error">>) EXCEPT !.code = "ECONNRESET"],
    ApiError(<<"Service", "unavailable">>, 503, TRUE),
    ApiError(<<"Not", "found">>, 404, FALSE),
    [form |-> "object", hasMessage |-> TRUE,
     message |-> <<"Internal", "server", "error">>, name |-> NoName,
     status |-> 500, isApiError |-> FALSE, code |-> NoCode, retryable |-> FALSE],
    TimeoutError }

\* a prompt the hook accepts and the server's content filter rejects
InappropriatePrompt == [type |-> "string", length |-> 10, trimmedLength |-> 10,
                        inappropriate |-> TRUE]

\* request bodies the API handler rejects as invalid
RejectedBodies ==
  { [isObject |-> TRUE, prompt |-> p, seed |-> Undefined, num_images |-> Undefined] :
      p \in {InappropriatePrompt, NoPrompt} }

\* generate-image.js lines 153-164: the answer to an invalid request body
badRequest(body) ==
  sendErrorResponse([message |-> validateGenerateImageRequest(body).message,
                     category |-> "validation", status |-> 400,
                     retryable |-> TRUE, retryAfter |-> Undefined])

\* useImageGeneration.js lines 199-202: what generateFn throws for them
ServerRejections ==
  { PlainError(generateFnError(badRequest(b)).message, <<"Error">>) :
      b \in RejectedBodies }

\* the errors the operation of executeWithErrorHandling fails with
ExecuteErrors == RetryErrors \cup ServerRejections

\* the runs: budget is maxRetries (hook, generate) or maxAttempts (utils/api)
Runs ==
  { [executor |-> "execute", budget |-> m, autoRetry |-> ar, baseDelay |-> bd,
     numImages |-> 0] :
      m \in 0..MaxRetries, ar \in BOOLEAN, bd \in {1000, 16000} }
  \cup
  { [executor |-> "backoff", budget |-> m, autoRetry |-> TRUE, baseDelay |-> bd,
     numImages |-> 0] :
      m \in 0..(MaxRetries + 1), bd \in {1000, 16000} }
  \cup
  { [executor |-> "generate", budget |-> m, autoRetry |-> TRUE, baseDelay |-> 1000,
     numImages |-> n] :
      m \in 0..MaxRetries, n \in {1, 4} }

\* what a run does, in order
Event(type, a, b) == [type |-> type, a |-> a, b |-> b]

RetryInit ==
  /\ LimiterIdle
  /\ ClassifierIdle
  /\ ApiIdle
  /\ ClientIdle
  /\ run \in Runs
  /\ pc = "start"
  /\ attempts = 0
  /\ trace = <<>>
  /\ failures = <<>>
  /\ thrown = NoError
  /\ errorState = NoError
  /\ onErrorArg = NoError
  /\ results = <<>>
  /\ returned = <<>>
  /\ settled = <<>>
  /\ yielded = FALSE
  /\ SeedIdle

\* handleError(processedError, context), lines 50-59: the error the hook
\* stores and hands to onError
handleError(processedError, context) ==
  [processError(AsObject(processedError), context)
     EXCEPT !.context = processedError.context]

\* executeWithErrorHandling, lines 78-93 and 85-93: the loop up to the await
\* of operation()
ExecInvoke ==
  /\ run.executor = "execute"
  /\ pc \in {"start", "sleeping"}
  /\ attempts <= run.budget
  /\ trace' = trace
              \o (IF onRetryFires(attempts)
                  THEN <<Event("onRetry", attempts, run.budget)>> ELSE <<>>)
              \o <<Event("call", 0, 0)>>
  /\ errorState' = IF pc = "start" THEN NoError ELSE errorState
  /\ pc' = "awaiting"
  /\ UNCHANGED <<run, attempts, failures, thrown, onErrorArg,
                 results, returned, settled, yielded, seedVars, limVars, clsVars, apiVars, clientVars>>

\* lines 95-101: operation() resolved
ExecResolve ==
  /\ run.executor = "execute"
  /\ pc = "awaiting"
  /\ errorState' = NoError
  /\ trace' = Append(trace, Event("onSuccess", attempts, 0))
  /\ pc' = "resolved"
  /\ UNCHANGED <<run, attempts, failures, thrown, onErrorArg,
                 results, returned, settled, yielded, seedVars, limVars, clsVars, apiVars, clientVars>>

\* lines 103-123: operation() rejected
ExecReject ==
  /\ run.executor = "execute"
  /\ pc = "awaiting"
  /\ \E e \in ExecuteErrors :
       LET currentAttempt == attempts + 1
           processedError == processError(e, [attempt |-> currentAttempt])
       IN  /\ attempts' = currentAttempt
           /\ failures' = Append(failures, e)
           /\ IF executeGivesUp(processedError, currentAttempt, run.budget,
                                run.autoRetry)
              THEN /\ errorState' = handleError(processedError, EmptyContext)
                   /\ onErrorArg' = handleError(processedError, EmptyContext)
                   /\ thrown' = processedError
                   /\ trace' = Append(trace, Event("onError", 0, 0))
                   /\ pc' = "rejected"
              ELSE /\ \E r \in Randoms :
                        trace' = Append(trace,
                          Event("sleep",
                                calculateBackoffDelay(currentAttempt,
                                                      run.baseDelay, r), 0))
                   /\ pc' = "sleeping"
                   /\ UNCHANGED <<errorState, onErrorArg, thrown>>
  /\ UNCHANGED <<run, results, returned, settled, yielded, seedVars, limVars, clsVars, apiVars, clientVars>>

\* retryWithBackoff, lines 124-126: the loop up to the await of fn()
BackoffInvoke ==
  /\ run.executor = "backoff"
  /\ pc \in {"start", "sleeping"}
  /\ attempts + 1 <= run.budget
  /\ attempts' = attempts + 1
  /\ trace' = Append(trace, Event("call", 0, 0))
  /\ pc' = "awaiting"
  /\ UNCHANGED <<run, failures, thrown, errorState, onErrorArg,
                 results, returned, settled, yielded, seedVars, limVars, clsVars, apiVars, clientVars>>

\* line 141: the loop ended without a return or a throw
BackoffExhausted ==
  /\ run.executor = "backoff"
  /\ pc \in {"start", "sleeping"}
  /\ attempts + 1 > run.budget
  /\ thrown' = IF failures = <<>> THEN NoError ELSE failures[Len(failures)]
  /\ pc' = "rejected"
  /\ UNCHANGED <<run, attempts, trace, failures, errorState, onErrorArg,
                 results, returned, settled, yielded, seedVars, limVars, clsVars, apiVars, clientVars>>

\* line 126: fn() resolved
BackoffResolve ==
  /\ run.executor = "backoff"
  /\ pc = "awaiting"
  /\ pc' = "resolved"
  /\ UNCHANGED <<run, attempts, trace, failures, thrown, errorState, onErrorArg,
                 results, returned, settled, yielded, seedVars, limVars, clsVars, apiVars, clientVars>>

\* lines 127-138: fn() rejected
BackoffReject ==
  /\ run.executor = "backoff"
  /\ pc = "awaiting"
  /\ \E e \in RetryErrors :
       /\ failures' = Append(failures, e)
       /\ IF retryWithBackoffGivesUp(e, attempts, run.budget)
          THEN /\ thrown' = e
               /\ pc' = "rejected"
               /\ UNCHANGED trace
          ELSE /\ trace' = Append(trace,
                      Event("sleep",
                            apiCalculateBackoffDelay(attempts, run.baseDelay), 0))
               /\ pc' = "sleeping"
               /\ UNCHANGED thrown
  /\ UNCHANGED <<run, attempts, errorState, onErrorArg, results, returned, settled, yielded, seedVars, limVars, clsVars, apiVars, clientVars>>

\* generateImagesWithRetry, lines 229-259: the attempt issues its numImages
\* fal.run calls and awaits them all
GenInvoke ==
  /\ run.executor = "generate"
  /\ pc \in {"start", "sleeping"}
  /\ trace' = Append(trace, Event("call", run.numImages, 0))
  /\ results' = <<>>
  /\ settled' = <<>>
  /\ pc' = "awaiting"
  /\ UNCHANGED <<run, attempts, failures, thrown, errorState, onErrorArg,
                 returned, yielded, seedVars, limVars, clsVars, apiVars, clientVars>>

\* lines 279-292 and 220-227: the catch block, then the next iteration up to
\* its sleep
GenCatch(e) ==
  /\ failures' = Append(failures, e)
  /\ IF generateGivesUp(e, attempts, run.budget)
     THEN /\ thrown' = e
          /\ pc' = "rejected"
          /\ UNCHANGED <<attempts, trace>>
     ELSE /\ attempts' = attempts + 1
          /\ trace' = Append(trace,
                        Event("sleep", generateBackoffDelay(attempts + 1), 0))
          /\ pc' = "sleeping"
          /\ UNCHANGED thrown

\* the results of the fal.run calls of one attempt, call i giving url i
FalResults(n) ==
  [1..n -> {"ok", "null", "noImages", "emptyImages", "noUrl"}]

FalResult(kind, i) ==
  IF kind = "ok" THEN ImageResult(i)
  ELSE IF kind = "null" THEN NullResult
  ELSE IF kind = "noImages" THEN NoImagesResult
  ELSE IF kind = "emptyImages" THEN EmptyImagesResult
  ELSE ImageResult(NoUrl)

\* lines 259-277: every fal.run call resolved
GenResolve ==
  /\ run.executor = "generate"
  /\ pc = "awaiting"
  /\ \E kinds \in FalResults(run.numImages) :
       LET rs == [i \in 1..run.numImages |-> FalResult(kinds[i], i)]
       IN  /\ results' = rs
           /\ settled' = kinds
           /\ yielded' = (yielded \/ \E i \in 1..run.numImages : validResult(rs[i]))
           /\ IF Len(imageUrls(rs)) = 0
              THEN /\ GenCatch(NoImagesError)
                   /\ UNCHANGED returned
              ELSE /\ returned' = imageUrls(rs)
                   /\ pc' = "resolved"
                   /\ UNCHANGED <<attempts, trace, failures, thrown>>
  /\ UNCHANGED <<run, errorState, onErrorArg, seedVars, limVars, clsVars, apiVars, clientVars>>

\* how the races of an attempt settle when some of them reject in the way
\* `how`: the others resolve with a valid url
Rejections(n, how) ==
  { kinds \in [1..n -> {"ok", how}] : \E i \in 1..n : kinds[i] = how }

\* line 259: Promise.all rejects with the error of the first race to reject,
\* whatever the other races resolve with
GenReject ==
  /\ run.executor = "generate"
  /\ pc = "awaiting"
  /\ \E kinds \in Rejections(run.numImages, "rejected") :
       /\ settled' = kinds
       /\ yielded' = (yielded \/ \E i \in 1..run.numImages : kinds[i] = "ok")
  /\ \E e \in RetryErrors : GenCatch(e)
  /\ UNCHANGED <<run, errorState, onErrorArg, results, returned, seedVars, limVars, clsVars, apiVars, clientVars>>

\* a race that loses its timer
timeoutRaceNever(pending) == FALSE

\* lines 247-255: the race of a fal.run call that has not settled when the
\* timer of the race fires rejects with 'Request timeout'
timeoutRace(pending) == pending

\* lines 251-254 and 259: fal.run calls that have not settled by the timeout
\* lose their race
GenTimeout ==
  /\ run.executor = "generate"
  /\ timeoutRace(pc = "awaiting")
  /\ \E kinds \in Rejections(run.numImages, "timeout") :
       /\ settled' = kinds
       /\ yielded' = (yielded \/ \E i \in 1..run.numImages : kinds[i] = "ok")
  /\ GenCatch(TimeoutError)
  /\ UNCHANGED <<run, errorState, onErrorArg, results, returned, seedVars, limVars, clsVars, apiVars, clientVars>>

NextRetry ==
  \/ ExecInvoke \/ ExecResolve \/ ExecReject
  \/ BackoffInvoke \/ BackoffExhausted \/ BackoffResolve \/ BackoffReject
  \/ GenInvoke \/ GenResolve \/ GenReject \/ GenTimeout

SpecRetry == RetryInit /\ [][NextRetry]_vars

-----------------------------------------------------------------------------
(* generateImagesWithRetry alone, its timers firing: specification         *)
(* SpecGenerate. The provider is free never to settle a call; the timer of *)
(* each race and the timer of each backoff sleep do fire.                  *)

GenerateInit ==
  /\ RetryInit
  /\ run.executor = "generate"

NextGenerate == GenInvoke \/ GenResolve \/ GenReject \/ GenTimeout

SpecGenerate ==
  /\ GenerateInit
  /\ [][NextGenerate]_vars
  /\ WF_vars(GenInvoke)
  /\ WF_vars(GenTimeout)

-----------------------------------------------------------------------------
(* The seeds of one fan-out of generateImagesWithRetry: specification      *)
(* SpecSeeds                                                               *)

\* values of Math.floor(Math.random() * 1000000)
SeedDraws == {0, 1, 999999}

\* options.seed, Undefined when the request gives none
SeedOptions == {Undefined, 0, 42}

\* options.seed, numImages, and the value Math.random() gives to each call
SeedInputs ==
  UNION { [seed : SeedOptions, numImages : {n}, draws : [1..n -> SeedDraws]] :
            n \in 1..MaxImages }

\* line 232: the seed of the call with the given index
seedOf(optionsSeed, index, draw) ==
  IF optionsSeed # Undefined THEN optionsSeed + index ELSE draw + index

SeedsInit ==
  /\ LimiterIdle
  /\ ClassifierIdle
  /\ ApiIdle
  /\ ClientIdle
  /\ RunIdle
  /\ seedInput \in SeedInputs
  /\ seeds = <<>>

\* lines 230-245: Array.from gives call index its seed, index from 0
IssueCalls ==
  /\ seeds = <<>>
  /\ seeds' = [i \in 1..seedInput.numImages |->
                seedOf(seedInput.seed, i - 1, seedInput.draws[i])]
  /\ UNCHANGED <<seedInput, run, pc, attempts, trace, failures, thrown, errorState,
                 onErrorArg, results, returned, settled, yielded,
                 limVars, clsVars, apiVars, clientVars>>

NextSeeds == IssueCalls

SpecSeeds == SeedsInit /\ [][NextSeeds]_vars

-----------------------------------------------------------------------------
(* Request deduplication: deduplicateRequests of the performance           *)
(* utilities; specification SpecDedup                                      *)

\* the argument lists the wrapped function is called with
DedupArgs == {"a", "b"}

\* the default keyGenerator, JSON.stringify(args)
stringifyArgs(args) == <<"JSON", args>>

\* a lookup that never finds the pending request
pendingHasNever(pending, key) == FALSE

\* line 194: pendingRequests.has(key)
pendingHas(pending, key) == key \in DOMAIN pending

\* Map.delete(key)
MapDelete(map, key) == [k \in (DOMAIN map) \ {key} |-> map[k]]

\* the requests requestFn has in flight for a key
InFlight(key) ==
  {p \in DOMAIN promises : promises[p].key = key /\ promises[p].state = "pending"}

\* lines 190-209: deduplicatedRequest(...args); requestFn either returns a
\* promise or (threw) throws before returning one
DedupCall ==
  /\ Len(dedupCalls) < MaxDedupCalls
  /\ \E args \in DedupArgs, threw \in BOOLEAN :
       LET key == stringifyArgs(args)
           joined == InFlight(key) # {}
           p == Len(promises) + 1
       IN  IF pendingHas(pendingRequests, key)
           THEN /\ ~threw
                /\ dedupCalls' = Append(dedupCalls,
                     [args |-> args, key |-> key, promise |-> pendingRequests[key],
                      joined |-> joined, state |-> "pending", value |-> 0])
                /\ UNCHANGED <<pendingRequests, promises>>
           ELSE IF threw
           THEN /\ promises' = Append(promises,
                     [key |-> key, state |-> "threw", value |-> p])
                /\ dedupCalls' = Append(dedupCalls,
                     [args |-> args, key |-> key, promise |-> p,
                      joined |-> joined, state |-> "rejected", value |-> p])
                /\ UNCHANGED pendingRequests
           ELSE /\ promises' = Append(promises,
                     [key |-> key, state |-> "pending", value |-> 0])
                /\ pendingRequests' = MapSet(pendingRequests, key, p)
                /\ dedupCalls' = Append(dedupCalls,
                     [args |-> args, key |-> key, promise |-> p,
                      joined |-> joined, state |-> "pending", value |-> 0])
  /\ UNCHANGED <<limVars, clsVars, apiVars, retryVars, hookVars>>

\* lines 199-203: the request settles, the finally callback deletes the key
\* and every caller holding the promise settles with it
RequestSettle(p, outcome) ==
  /\ promises[p].state = "pending"
  /\ promises' = [promises EXCEPT ![p] = [@ EXCEPT !.state = outcome, !.value = p]]
  /\ pendingRequests' = MapDelete(pendingRequests, promises[p].key)
  /\ dedupCalls' = [c \in DOMAIN dedupCalls |->
                      IF dedupCalls[c].promise = p
                      THEN [dedupCalls[c] EXCEPT !.state = outcome, !.value = p]
                      ELSE dedupCalls[c]]
  /\ UNCHANGED <<limVars, clsVars, apiVars, retryVars, hookVars>>

RequestFulfil == \E p \in DOMAIN promises : RequestSettle(p, "fulfilled")

RequestReject == \E p \in DOMAIN promises : RequestSettle(p, "rejected")

InitDedup ==
  /\ LimiterIdle
  /\ ClassifierIdle
  /\ ApiIdle
  /\ RetryIdle
  /\ HookIdle
  /\ DedupIdle

NextDedup ==
  \/ DedupCall
  \/ RequestFulfil
  \/ RequestReject

SpecDedup == InitDedup /\ [][NextDedup]_vars

-----------------------------------------------------------------------------
(* The image generation hook: hooks/useImageGeneration.js with             *)
(* hooks/useErrorHandler.js; specification SpecHook                        *)
(* A prompt is the sequence of its characters.                             *)

\* String.prototype.trim
RECURSIVE trimStart(_)
trimStart(p) == IF p # <<>> /\ Head(p) = " " THEN trimStart(Tail(p)) ELSE p

RECURSIVE trimEnd(_)
trimEnd(p) ==
  IF p # <<>> /\ p[Len(p)] = " " THEN trimEnd(SubSeq(p, 1, Len(p) - 1)) ELSE p

trim(p) == trimEnd(trimStart(p))

\* lines 82 and 98: prompt.trim().toLowerCase()
normalizedPrompt(prompt) == toLowerCase(trim(prompt))

\* lines 110-135, the hook's validatePrompt
hookValidatePrompt(prompt) ==
  LET trimmedPrompt == trim(prompt)
  IN  IF trimmedPrompt = <<>>
      THEN [valid |-> FALSE,
            error |-> <<"Please", "enter", "a", "prompt", "to", "generate", "images">>]
      ELSE IF Len(trimmedPrompt) < 3
      THEN [valid |-> FALSE,
            error |-> <<"Prompt", "must", "be", "at", "least", "3", "characters", "long">>]
      ELSE IF Len(trimmedPrompt) > 500
      THEN [valid |-> FALSE,
            error |-> <<"Prompt", "must", "be", "less", "than", "500", "characters">>]
      ELSE [valid |-> TRUE, error |-> <<>>]

\* the cache lifetime of line 85, in ms
cacheLifetime == 300000

NoEntry == [generationId |-> NoRequest]

\* a lookup that still serves an entry aged exactly cacheLifetime
getCachedResultInclusive(history, prompt, t) ==
  LET key == normalizedPrompt(prompt)
  IN  IF key \in DOMAIN history /\ t - history[key].timestamp <= cacheLifetime
      THEN history[key]
      ELSE NoEntry

\* lines 81-90
getCachedResult(history, prompt, t) ==
  LET key == normalizedPrompt(prompt)
  IN  IF key \in DOMAIN history /\ t - history[key].timestamp < cacheLifetime
      THEN history[key]
      ELSE NoEntry

\* lines 97-103
cacheResult(history, prompt, result, t) ==
  MapSet(history, normalizedPrompt(prompt),
         [images |-> result.images, metadata |-> result.metadata,
          generationId |-> result.generationId, timestamp |-> t])

\* lines 211-219: the result of request r, which the API computed from the
\* prompt and the options of the request body
generationResult(r, prompt, options) ==
  [images |-> <<[request |-> r, seed |-> options.seed]>>,
   metadata |-> [prompt |-> prompt],
   generationId |-> r]

NoValue == [images |-> <<>>, metadata |-> NoMetadata, generationId |-> NoRequest]

\* the value generateImages returns for a cache hit, line 163
cachedValue(entry) ==
  [images |-> entry.images, metadata |-> entry.metadata,
   generationId |-> entry.generationId]

\* a finally block that leaves the reference alone
finallyKeeps(ref, r) == ref

\* lines 235-240
finallyRelease(ref, r) == IF ref = r THEN NoRequest ELSE ref

\* AbortController.abort() of the current request, lines 178-180 and 273-275
abortCurrent(reqs, ref) ==
  IF ref # NoRequest /\ reqs[ref].state = "pending"
  THEN [reqs EXCEPT ![ref].state = "aborted"]
  ELSE reqs

\* lines 176-197: generateFn up to the await of fetch, for call c
issueFetch(reqs, ref, c, afterCancel) ==
  Append(abortCurrent(reqs, ref),
         [call |-> c, state |-> "pending", afterCancel |-> afterCancel])

\* useErrorHandler.js lines 39-42: clearTimeout of the pending retry timeout
clearRetryTimeout(tms, ref) ==
  IF ref # NoTimer /\ tms[ref].state = "pending"
  THEN [tms EXCEPT ![ref].state = "cleared"]
  ELSE tms

\* the errors fetch and generateFn fail with
HookError(message, name) ==
  [form |-> "Error", hasMessage |-> TRUE, message |-> message, name |-> name,
   status |-> NoStatus]

\* the DOMException of an aborted fetch; its message depends on the browser
AbortErrors ==
  { HookError(<<"The", "user", "aborted", "a", "request">>, <<"AbortError">>),
    HookError(<<"The", "operation", "was", "aborted">>, <<"AbortError">>) }

FetchErrors ==
  { HookError(<<"Invalid", "response", "format", "from", "image", "generation",
                "API">>, <<"Error">>),
    generateFnError([status |-> 500, error |-> <<"Internal", "server", "error">>]) }

\* the prompts and options generateImages is called with
Cat == <<"C", "a", "t">>
CatSpaced == <<" ", "c", "a", "t", " ">>
Dog == <<"D", "o", "g">>
TooShort == <<" ", "a", "b">>

\* generationOptions: [seed, forceRegenerate]
HookOptions(seed, forceRegenerate) ==
  [seed |-> seed, forceRegenerate |-> forceRegenerate]

\* the arguments of the generateImages calls
HookInputs ==
  { <<Cat, HookOptions(Undefined, FALSE)>>,
    <<CatSpaced, HookOptions(7, FALSE)>>,
    <<Cat, HookOptions(Undefined, TRUE)>>,
    <<Dog, HookOptions(Undefined, FALSE)>>,
    <<TooShort, HookOptions(Undefined, FALSE)>> }

\* the instants of Date.now() the model visits
HookTimes == {0, 299999, 300000}

\* a call that has not settled
Unsettled(c) == calls[c].pc \in {"fetching", "sleeping"}

NewCall(kind, prompt, options, where, r, value) ==
  [kind |-> kind, prompt |-> prompt, options |-> options, pc |-> where,
   currentAttempt |-> 0, request |-> r, timer |-> NoTimer,
   fetches |-> IF r = NoRequest THEN 0 ELSE 1,
   value |-> value, thrown |-> NoError,
   cancelled |-> FALSE, fetchesAtCancel |-> 0,
   overlapped |-> {d \in DOMAIN calls :
                     /\ Unsettled(d)
                     /\ normalizedPrompt(calls[d].prompt) = normalizedPrompt(prompt)}]

HookInit ==
  /\ LimiterIdle
  /\ ClassifierIdle
  /\ ApiIdle
  /\ RetryIdle
  /\ DedupIdle
  /\ HookIdle

\* lines 143-254: generateImages(promptOverride, generationOptions), up to
\* its return or to the await of fetch
GenerateImages ==
  /\ Len(calls) < MaxGenerations
  /\ \E input \in HookInputs :
       LET prompt == input[1]
           options == input[2]
           c == Len(calls) + 1
           validation == hookValidatePrompt(prompt)
           cached == getCachedResult(generationHistory, prompt, now)
       IN  IF ~validation.valid
           THEN /\ hookError' = processError(
                      [form |-> "string", hasMessage |-> TRUE,
                       message |-> validation.error, name |-> NoName,
                       status |-> NoStatus], EmptyContext)
                /\ hook' = [hook EXCEPT !.loading = FALSE]
                /\ calls' = Append(calls, NewCall("generate", prompt, options,
                                                  "invalid", NoRequest, NoValue))
                /\ UNCHANGED <<generationHistory, currentRequestRef, retryTimeoutRef,
                               lastOperationRef, requests, timers>>
           ELSE IF cached # NoEntry /\ ~options.forceRegenerate
           THEN /\ hook' = [hook EXCEPT !.images = cached.images,
                                        !.metadata = cached.metadata,
                                        !.generationId = cached.generationId,
                                        !.prompt = prompt]
                /\ calls' = Append(calls, NewCall("generate", prompt, options,
                                                  "served", NoRequest,
                                                  cachedValue(cached)))
                /\ UNCHANGED <<generationHistory, currentRequestRef, retryTimeoutRef,
                               lastOperationRef, hookError, requests, timers>>
           ELSE /\ hook' = [hook EXCEPT !.loading = TRUE, !.prompt = prompt]
                /\ hookError' = NoError
                /\ timers' = clearRetryTimeout(timers, retryTimeoutRef)
                /\ retryTimeoutRef' = NoTimer
                /\ lastOperationRef' = c
                /\ requests' = issueFetch(requests, currentRequestRef, c, FALSE)
                /\ currentRequestRef' = Len(requests) + 1
                /\ calls' = Append(calls, NewCall("generate", prompt, options,
                                                  "fetching", Len(requests) + 1,
                                                  NoValue))
                /\ UNCHANGED generationHistory
  /\ UNCHANGED <<limVars, clsVars, apiVars, retryVars, dedupVars>>

\* lines 260-267 with useErrorHandler.js lines 132-139 and 70-93: retry()
\* runs the last operation again
Retry ==
  /\ Len(calls) < MaxGenerations
  /\ lastOperationRef # NoOperation
  /\ LET c == Len(calls) + 1
         op == calls[lastOperationRef]
     IN  /\ hookError' = NoError
         /\ timers' = clearRetryTimeout(timers, retryTimeoutRef)
         /\ retryTimeoutRef' = NoTimer
         /\ requests' = issueFetch(requests, currentRequestRef, c, FALSE)
         /\ currentRequestRef' = Len(requests) + 1
         /\ calls' = Append(calls, NewCall("retry", op.prompt, op.options,
                                           "fetching", Len(requests) + 1, NoValue))
  /\ UNCHANGED <<hook, generationHistory, lastOperationRef,
                 limVars, clsVars, apiVars, retryVars, dedupVars>>

\* lines 199-240 with useErrorHandler.js lines 95-101: the response is ok
FetchSucceed ==
  \E r \in DOMAIN requests :
    /\ requests[r].state = "pending"
    /\ LET c == requests[r].call
           result == generationResult(r, calls[c].prompt, calls[c].options)
       IN  /\ hook' = [hook EXCEPT !.images = result.images,
                                   !.metadata = result.metadata,
                                   !.generationId = result.generationId,
                                   !.loading = FALSE]
           /\ generationHistory' =
                cacheResult(generationHistory, calls[c].prompt, result, now)
           /\ currentRequestRef' = finallyRelease(currentRequestRef, r)
           /\ requests' = [requests EXCEPT ![r].state = "ok"]
           /\ hookError' = NoError
           /\ timers' = clearRetryTimeout(timers, retryTimeoutRef)
           /\ retryTimeoutRef' = NoTimer
           /\ calls' = [calls EXCEPT ![c].pc = "resolved", ![c].value = result,
                                     ![c].request = NoRequest]
    /\ UNCHANGED <<lastOperationRef, limVars, clsVars, apiVars, retryVars, dedupVars>>

\* lines 199-209 and 235-240 with useErrorHandler.js lines 103-123: the
\* request of call c fails with the error e
FetchSettleFailed(r, e) ==
  LET c == requests[r].call
      currentAttempt == calls[c].currentAttempt + 1
      processedError == processError(e, EmptyContext)
  IN  /\ currentRequestRef' = finallyRelease(currentRequestRef, r)
      /\ requests' = [requests EXCEPT ![r].state = "failed"]
      /\ IF executeGivesUp(processedError, currentAttempt, HookMaxRetries, TRUE)
         THEN /\ hookError' = handleError(processedError, EmptyContext)
              /\ hook' = [hook EXCEPT !.loading = FALSE]
              /\ calls' = [calls EXCEPT ![c].pc = "rejected",
                                        ![c].thrown = processedError,
                                        ![c].currentAttempt = currentAttempt,
                                        ![c].request = NoRequest]
              /\ UNCHANGED <<timers, retryTimeoutRef>>
         ELSE /\ timers' = Append(timers, [call |-> c, state |-> "pending"])
              /\ retryTimeoutRef' = Len(timers) + 1
              /\ calls' = [calls EXCEPT ![c].pc = "sleeping",
                                        ![c].currentAttempt = currentAttempt,
                                        ![c].request = NoRequest,
                                        ![c].timer = Len(timers) + 1]
              /\ UNCHANGED <<hook, hookError>>
      /\ UNCHANGED <<generationHistory, lastOperationRef,
                     limVars, clsVars, apiVars, retryVars, dedupVars>>

\* fetch rejects, the response is not ok or its body is not a result
FetchFail ==
  \E r \in DOMAIN requests, e \in FetchErrors :
    /\ requests[r].state = "pending"
    /\ FetchSettleFailed(r, e)

\* the aborted fetch rejects with its AbortError
FetchAborted ==
  \E r \in DOMAIN requests, e \in AbortErrors :
    /\ requests[r].state = "aborted"
    /\ FetchSettleFailed(r, e)

\* useErrorHandler.js lines 121-123 and 85-93 with useImageGeneration.js
\* lines 176-197: the backoff timer fires and the loop invokes generateFn
TimerFire ==
  \E t \in DOMAIN timers :
    /\ timers[t].state = "pending"
    /\ LET c == timers[t].call
       IN  /\ timers' = [timers EXCEPT ![t].state = "fired"]
           /\ requests' = issueFetch(requests, currentRequestRef, c, calls[c].cancelled)
           /\ currentRequestRef' = Len(requests) + 1
           /\ calls' = [calls EXCEPT ![c].pc = "fetching",
                                     ![c].request = Len(requests) + 1,
                                     ![c].timer = NoTimer,
                                     ![c].fetches = @ + 1]
    /\ UNCHANGED <<hook, generationHistory, retryTimeoutRef, lastOperationRef,
                   hookError, limVars, clsVars, apiVars, retryVars, dedupVars>>

\* lines 272-280: cancelGeneration()
CancelGeneration ==
  /\ \E c \in DOMAIN calls : Unsettled(c)
  /\ requests' = abortCurrent(requests, currentRequestRef)
  /\ currentRequestRef' = NoRequest
  /\ hook' = [hook EXCEPT !.loading = FALSE]
  /\ hookError' = NoError
  /\ timers' = clearRetryTimeout(timers, retryTimeoutRef)
  /\ retryTimeoutRef' = NoTimer
  /\ calls' = [c \in DOMAIN calls |->
                 IF Unsettled(c)
                 THEN [calls[c] EXCEPT
                         !.cancelled = TRUE,
                         !.fetchesAtCancel =
                           IF /\ calls[c].request # NoRequest
                              /\ calls[c].request = currentRequestRef
                              /\ requests[currentRequestRef].state = "pending"
                           THEN calls[c].fetches ELSE @]
                 ELSE calls[c]]
  /\ UNCHANGED <<generationHistory, lastOperationRef,
                 limVars, clsVars, apiVars, retryVars, dedupVars>>

\* time passes
HookTick ==
  /\ \E t \in HookTimes : t > now /\ now' = t
  /\ UNCHANGED <<limiter, rateLimitStore, callLog, soloStore, keptStore,
                 clsVars, apiVars, retryVars, clientVars>>

NextHook ==
  \/ GenerateImages
  \/ Retry
  \/ FetchSucceed
  \/ FetchFail
  \/ FetchAborted
  \/ TimerFire
  \/ CancelGeneration
  \/ HookTick

SpecHook == HookInit /\ [][NextHook]_vars

-----------------------------------------------------------------------------
(* The hook or the deduplicator, one of them at work: specification        *)
(* SpecClient                                                              *)

NextClient ==
  \/ DedupIdle /\ NextHook
  \/ HookIdle /\ now = 0 /\ NextDedup

SpecClient == HookInit /\ [][NextClient]_vars

-----------------------------------------------------------------------------
(* Properties of the rate limiter *)

Last(seq) == seq[Len(seq)]

\* the step is a checkRateLimit call for key k
Called(k) == Len(callLog'[k]) = Len(callLog[k]) + 1

\* the entry that call appended
NewEntry(k) == Last(callLog'[k])

\* the bucket of k is the same before and after the step
SameBucket(k) ==
  /\ (k \in DOMAIN rateLimitStore') = (k \in DOMAIN rateLimitStore)
  /\ k \in DOMAIN rateLimitStore => rateLimitStore'[k] = rateLimitStore[k]

\* C1: every stored bucket has 0 <= tokens <= maxRequests, every allowed
\* result has 0 <= remaining <= maxRequests - 1 and every denied result has
\* remaining = 0.
C1_TokensWithinCapacity ==
  /\ \A k \in DOMAIN rateLimitStore :
       /\ rateLimitStore[k].tokens >= 0
       /\ rateLimitStore[k].tokens <= limiter.maxRequests
  /\ \A k \in Keys : \A i \in 1..Len(callLog[k]) :
       LET r == callLog[k][i].result
       IN  IF r.allowed
           THEN r.remaining >= 0 /\ r.remaining <= limiter.maxRequests - 1
           ELSE r.remaining = 0

\* a bucket refilled while it still held a token, and a denied call
C1_Witness ==
  \E k \in Keys :
    /\ k \in DOMAIN rateLimitStore
    /\ \E i, j \in 1..Len(callLog[k]) :
         /\ i + 1 = j
         /\ callLog[k][i].result.allowed
         /\ callLog[k][i].result.remaining > 0
         /\ callLog[k][j].at - callLog[k][i].at >= limiter.windowMs
         /\ callLog[k][j].result.allowed
    /\ \E i \in 1..Len(callLog[k]) : ~callLog[k][i].result.allowed

\* the calls of key k made less than windowMs after its first call
InFirstWindow(k) ==
  { i \in 1..Len(callLog[k]) :
      callLog[k][i].at - callLog[k][1].at < limiter.windowMs }

\* C2: from no bucket, the first maxRequests calls of a key within one window
\* are allowed with remaining = c-1, ..., 0 and every further call in that
\* window is denied with remaining = 0.
C2_FirstWindowCountdown ==
  \A k \in Keys : \A i \in InFirstWindow(k) :
    LET r == callLog[k][i].result
    IN  IF i <= limiter.maxRequests
        THEN r.allowed /\ r.remaining = limiter.maxRequests - i
        ELSE ~r.allowed /\ r.remaining = 0

\* a key that used its whole capacity and was then denied in the same window
C2_Witness ==
  \E k \in Keys :
    /\ limiter.maxRequests >= 2
    /\ Len(callLog[k]) = limiter.maxRequests + 1
    /\ InFirstWindow(k) = 1..Len(callLog[k])
    /\ ~Last(callLog[k]).result.allowed

\* the calls of key k admitted in the interval [s, s + windowMs)
AdmittedIn(k, s) ==
  { i \in 1..Len(callLog[k]) :
      /\ callLog[k][i].result.allowed
      /\ callLog[k][i].at >= s
      /\ callLog[k][i].at < s + limiter.windowMs }

\* C3: in every interval of length windowMs, at most maxRequests calls of a
\* key are allowed.
C3_PerWindowLimit ==
  \A k \in Keys : \A i \in 1..Len(callLog[k]) :
    Cardinality(AdmittedIn(k, callLog[k][i].at)) <= limiter.maxRequests

\* C4: a call for key k leaves the bucket of every other key unchanged, and
\* the results returned for a key, like its bucket, are those of a limiter
\* that never saw another key.
C4_KeysDoNotInterfere ==
  [][ /\ \A k \in Keys : Called(k) =>
           \A j \in Keys \ {k} : SameBucket(j)
      /\ Called(Key1) =>
           /\ NewEntry(Key1).result =
                checkRateLimit(limiter, soloStore, Key1, now).result
           /\ (Key1 \in DOMAIN rateLimitStore') = (Key1 \in DOMAIN soloStore')
           /\ Key1 \in DOMAIN rateLimitStore' =>
                rateLimitStore'[Key1] = soloStore'[Key1] ]_vars

\* one key is exhausted and denied while another still has its tokens
C4_Witness ==
  /\ limiter.maxRequests >= 2
  /\ Len(callLog[Key1]) > 0
  /\ ~Last(callLog[Key1]).result.allowed
  /\ \E j \in Keys \ {Key1} :
       /\ Len(callLog[j]) = 1
       /\ callLog[j][1].at >= Last(callLog[Key1]).at
       /\ callLog[j][1].result.remaining = limiter.maxRequests - 1

\* C5: a call arriving windowMs or more after lastRefill is allowed and
\* leaves tokens = maxRequests - 1 and lastRefill = now; an earlier call adds
\* no token and leaves lastRefill unchanged.
C5_WindowedRefill ==
  [][ \A k \in Keys : (Called(k) /\ k \in DOMAIN rateLimitStore) =>
        LET b == rateLimitStore[k]
            a == rateLimitStore'[k]
        IN  IF now - b.lastRefill >= limiter.windowMs
            THEN /\ NewEntry(k).result.allowed
                 /\ a.tokens = limiter.maxRequests - 1
                 /\ a.lastRefill = now
            ELSE /\ a.lastRefill = b.lastRefill
                 /\ a.tokens = IF NewEntry(k).result.allowed
                               THEN b.tokens - 1 ELSE b.tokens ]_vars

\* an exhausted bucket was refilled exactly one window after its creation,
\* after a call denied in the partial window
C5_Witness ==
  \E k \in Keys : \E i \in 2..Len(callLog[k]) :
    /\ ~callLog[k][i-1].result.allowed
    /\ callLog[k][i-1].at > callLog[k][1].at
    /\ callLog[k][i].at - callLog[k][1].at = limiter.windowMs
    /\ callLog[k][i].result.allowed
    /\ k \in DOMAIN rateLimitStore
    /\ rateLimitStore[k].lastRefill = callLog[k][i].at

\* C6: a denied call returns retryAfter = ceil((lastRefill + windowMs - now)
\* / 1000), which is at least 1 and at most ceil(windowMs / 1000), and a
\* resetTime later than now, and leaves the bucket unchanged.
C6_DeniedRetryAfter ==
  [][ \A k \in Keys : (Called(k) /\ ~NewEntry(k).result.allowed) =>
        LET r == NewEntry(k).result
        IN  /\ k \in DOMAIN rateLimitStore
            /\ SameBucket(k)
            /\ r.retryAfter =
                 CeilDiv(rateLimitStore[k].lastRefill + limiter.windowMs - now,
                         1000)
            /\ r.retryAfter >= 1
            /\ r.retryAfter <= CeilDiv(limiter.windowMs, 1000)
            /\ r.resetTime > now ]_vars

\* a call denied less than a second before the window ends
C6_Witness ==
  \E k \in Keys : \E i \in 1..Len(callLog[k]) :
    LET e == callLog[k][i]
    IN  /\ ~e.result.allowed
        /\ e.result.resetTime - e.at < 1000
        /\ e.result.retryAfter = 1

-----------------------------------------------------------------------------
(* Properties of the client classifier *)

\* the rule list of the design: category, message keywords, statuses
ReferenceRules ==
  << [category |-> "configuration",
      keywords |-> {<<"configuration">>, <<"api", "key">>, <<"not", "configured">>},
      names    |-> {},
      statuses |-> {}],
     [category |-> "validation",
      keywords |-> {<<"validation">>, <<"invalid">>, <<"required">>},
      names    |-> {},
      statuses |-> {400}],
     [category |-> "authentication",
      keywords |-> {<<"unauthorized">>, <<"authentication">>},
      names    |-> {},
      statuses |-> {401, 403}],
     [category |-> "rate_limit",
      keywords |-> {<<"rate", "limit">>, <<"too", "many", "requests">>},
      names    |-> {},
      statuses |-> {429}],
     [category |-> "network",
      keywords |-> {<<"network">>, <<"connection">>, <<"timeout">>},
      names    |-> {},
      statuses |-> {0}],
     [category |-> "server",
      keywords |-> {<<"server">>, <<"internal">>},
      names    |-> {},
      statuses |-> 500..599],
     [category |-> "client",
      keywords |-> {},
      names    |-> {},
      statuses |-> 400..499] >>

\* the same list with the keywords the code also matches: 'missing
\* credentials', 'bad request', and 'network' in the error's name
ExtendedRules ==
  [ReferenceRules EXCEPT
     ![1].keywords = @ \cup {<<"missing", "credentials">>},
     ![2].keywords = @ \cup {<<"bad", "request">>},
     ![5].names    = {<<"network">>}]

RuleMatches(rule, message, name, status) ==
  \/ \E kw \in rule.keywords : includes(toLowerCase(message), kw)
  \/ \E kw \in rule.names : includes(toLowerCase(name), kw)
  \/ status \in rule.statuses

\* first match wins; 'unknown' when no rule matches
FirstMatch(rules, message, name, status) ==
  LET hits == { i \in 1..Len(rules) :
                  RuleMatches(rules[i], message, name, status) }
  IN  IF hits = {} THEN "unknown"
      ELSE rules[CHOOSE i \in hits : \A j \in hits : i <= j].category

-----------------------------------------------------------------------------
(* Properties of the API handler *)

\* C7: among the handler invocations of one client key that reach the limiter
\* within one window of its bucket, whatever the handlers in flight and the
\* order in which they settle, exactly min(number of invocations, capacity)
\* are admitted, every admission has taken one token from the bucket, and the
\* key is never admitted more than capacity times in the window.
C7_AtomicPerKey ==
  \A k \in DOMAIN rateLimitStore :
    /\ winAdmitted[k] = Min(winCalls[k], limiter.maxRequests)
    /\ rateLimitStore[k].tokens = limiter.maxRequests - winAdmitted[k]
    /\ winAdmitted[k] <= limiter.maxRequests

\* two admitted handlers of one key still await the provider when a third
\* invocation of that key, in the same window, is denied
C7_Witness ==
  \E k \in DOMAIN rateLimitStore :
    /\ inflight[k] = 2
    /\ winCalls[k] = 3
    /\ winAdmitted[k] = 2
    /\ rateLimitStore[k].tokens = 0
    /\ lastLimit # NoResult
    /\ ~lastLimit.allowed

\* C8: an invocation the limiter denies is answered with status 429, category
\* rate_limit, retryable true and a Retry-After header holding the limiter's
\* retryAfter, and it starts no generation: generateImagesWithRetry, the only
\* caller of fal.run, is not called for it.
C8_DeniedNeverGenerates ==
  [][ (invocations' = invocations + 1 /\ ~lastLimit'.allowed) =>
        /\ lastResponse'.status = 429
        /\ lastResponse'.category = "rate_limit"
        /\ lastResponse'.retryable = TRUE
        /\ lastResponse'.retryAfter = lastLimit'.retryAfter
        /\ lastHeaders'.retryAfter = String(lastLimit'.retryAfter)
        /\ generateCalls' = generateCalls
        /\ inflight' = inflight ]_vars

\* a denied invocation, 1500 ms into the window, while a generation is running
C8_Witness ==
  /\ lastLimit # NoResult
  /\ ~lastLimit.allowed
  /\ lastLimit.retryAfter = 1
  /\ lastResponse.status = 429
  /\ lastHeaders.retryAfter = String(1)
  /\ generateCalls > 0
  /\ \E k \in Keys : inflight[k] > 0

RetryableCategories == {"network", "server", "rate_limit", "generation", "unknown"}

\* C10: on every error response of the server and on every error the client
\* classifier returns, retryable is true exactly for the categories network,
\* server, rate_limit, generation and unknown; a validation error is never
\* retryable.
C10_RetryableByCategory ==
  /\ lastResponse.category # NoCategory =>
       lastResponse.retryable = (lastResponse.category \in RetryableCategories)
  /\ clientError # NoError =>
       clientError.retryable = (clientError.category \in RetryableCategories)

-----------------------------------------------------------------------------
(* Properties of classification and of the retry executors *)

\* the events of one type in the trace, and those before position i
CountType(type) == Cardinality({ i \in DOMAIN trace : trace[i].type = type })
CountBefore(type, i) ==
  Cardinality({ j \in DOMAIN trace : j < i /\ trace[j].type = type })

\* the run has returned or thrown
Finished == pc \in {"resolved", "rejected"}

\* C11: an error whose message contains "unauthorized" and "api key" is
\* classified authentication with retryable false by the client classifier
\* and by processApiError alike, and executeWithErrorHandling invokes an
\* operation failing with it exactly once.
C11_UnauthorizedApiKey ==
  \A i \in DOMAIN failures :
    LET e == failures[i]
        message == toLowerCase(e.message)
    IN  (includes(message, <<"unauthorized">>) /\ includes(message, <<"api", "key">>)) =>
          /\ processApiError(e).category = "authentication"
          /\ processApiError(e).retryable = FALSE
          /\ run.executor = "execute" =>
               /\ pc = "rejected"
               /\ CountType("call") = 1
               /\ thrown.category = "authentication"
               /\ thrown.retryable = FALSE

\* the message matches no keyword of any rule
NoKeyword(message) == FirstMatch(ExtendedRules, message, NoName, NoStatus) = "unknown"

\* the category the status rules give
StatusCategory(status) ==
  IF status = 400 THEN "validation"
  ELSE IF status \in {401, 403} THEN "authentication"
  ELSE IF status = 429 THEN "rate_limit"
  ELSE IF status = 0 THEN "network"
  ELSE IF status \in 500..599 THEN "server"
  ELSE IF status \in 400..499 THEN "client"
  ELSE "unknown"

\* C12: whatever the form of the raw error, a plain object or an Error
\* instance with a status property, an error whose message matches no keyword
\* is classified by its status: 401 or 403 authentication (not retryable),
\* 429 rate_limit, 500-599 server, 0 network, any other 4xx client.
C12_StatusRulesAnyForm ==
  ( /\ clientError # NoError
    /\ rawError.form \in {"Error", "object"}
    /\ NoKeyword(rawError.message)
    /\ ~includes(toLowerCase(rawError.name), <<"network">>)
    /\ rawError.status # NoStatus ) =>
      /\ clientError.category = StatusCategory(rawError.status)
      /\ clientError.retryable =
           (StatusCategory(rawError.status) \in
              {"rate_limit", "network", "server", "unknown"})

\* C13: in a failing run of executeWithErrorHandling the error thrown, the
\* error in the hook's error state and the error handed to onError carry the
\* same category and retryable value, those computed when the failure was
\* caught; processing a processed error again changes neither.
C13_ClassifiedOnce ==
  (run.executor = "execute" /\ pc = "rejected") =>
    LET again == processError(AsObject(errorState), EmptyContext)
    IN  /\ errorState.category = thrown.category
        /\ errorState.retryable = thrown.retryable
        /\ onErrorArg.category = thrown.category
        /\ onErrorArg.retryable = thrown.retryable
        /\ again.category = thrown.category
        /\ again.retryable = thrown.retryable

\* a run that failed twice, the last time with an error that only its name
\* makes a network error
C13_Witness ==
  /\ run.executor = "execute"
  /\ pc = "rejected"
  /\ Len(failures) >= 2
  /\ thrown.category = "network"
  /\ ~includes(toLowerCase(thrown.message), <<"network">>)
  /\ errorState.category = "network"
  /\ errorState.context = [attempt |-> Len(failures)]

\* C14: for every error response the handler sends to the client hook, the
\* error the hook records for it has the response's category and the
\* response's retryable value.
C14_StableAcrossBoundary ==
  (lastResponse.category # NoCategory /\ lastResponse.status # 405) =>
    /\ recordedError(lastResponse).category = lastResponse.category
    /\ recordedError(lastResponse).retryable = lastResponse.retryable

\* the executor's own classification of a raw error as not retryable
ClassifiedNonRetryable(e) ==
  IF run.executor = "execute" THEN ~processError(e, EmptyContext).retryable
  ELSE IF run.executor = "backoff" THEN ~isRetryableError(e)
  ELSE ~processApiError(e).retryable

\* C15: when the first failure of the operation is classified non-retryable,
\* the operation is invoked exactly once (generateImagesWithRetry issuing its
\* numImages provider calls once) and the run ends without any sleep.
C15_NonRetryableOnce ==
  (failures # <<>> /\ ClassifiedNonRetryable(failures[1])) =>
    /\ pc = "rejected"
    /\ CountType("call") = 1
    /\ CountType("sleep") = 0
    /\ run.executor = "generate" => trace[1].a = run.numImages

\* every failure of the run was retryable for retryWithBackoff
AllRetryable == \A i \in DOMAIN failures : isRetryableError(failures[i])

\* C16: retryWithBackoff invokes fn at most maxAttempts times, exactly
\* maxAttempts times when every attempt fails with a retryable error, then
\* rejecting with the last error, and stops at the first success.
C16_BackoffAttempts ==
  run.executor = "backoff" =>
    /\ CountType("call") <= run.budget
    /\ (pc = "rejected" /\ AllRetryable) =>
         /\ CountType("call") = run.budget
         /\ failures # <<>> => thrown = failures[Len(failures)]
    /\ pc = "resolved" =>
         /\ CountType("call") = Len(failures) + 1
         /\ trace[Len(trace)].type = "call"

\* three attempts, all failing with retryable errors
C16_Witness ==
  /\ run.executor = "backoff"
  /\ run.budget = 3
  /\ pc = "rejected"
  /\ AllRetryable
  /\ CountType("call") = 3
  /\ CountType("sleep") = 2

\* every failure of the run was classified retryable by the hook
AllClassifiedRetryable ==
  \A i \in DOMAIN failures : processError(failures[i], EmptyContext).retryable

\* C17: executeWithErrorHandling with maxRetries = m invokes the operation at
\* most m + 1 times, exactly m + 1 times when every attempt fails with a
\* retryable error, exactly once when autoRetry is false, and does not sleep
\* after the final failed attempt.
C17_ExecuteAttempts ==
  run.executor = "execute" =>
    /\ CountType("call") <= run.budget + 1
    /\ (pc = "rejected" /\ AllClassifiedRetryable /\ run.autoRetry) =>
         CountType("call") = run.budget + 1
    /\ (Finished /\ ~run.autoRetry) => CountType("call") = 1
    /\ pc = "rejected" =>
         /\ trace[Len(trace)].type = "onError"
         /\ trace[Len(trace) - 1].type = "call"
         /\ CountType("sleep") = CountType("call") - 1

\* the initial attempt and two retries, all failing
C17_Witness ==
  /\ run.executor = "execute"
  /\ run.autoRetry
  /\ run.budget = 2
  /\ pc = "rejected"
  /\ AllClassifiedRetryable
  /\ CountType("call") = 3
  /\ CountType("sleep") = 2

\* C18: in generateImagesWithRetry an attempt that fails with an error of a
\* retryable category and is not the last attempt is followed by another
\* attempt: the run rejects with such an error only when the budget is spent.
C18_RetryableRetried ==
  ( /\ run.executor = "generate"
    /\ pc = "rejected"
    /\ processApiError(thrown).category \in RetryableCategories ) =>
      CountType("call") = run.budget + 1

\* C19: the k-th sleep of a run of executeWithErrorHandling or of
\* retryWithBackoff lasts at least min(baseDelay * 2^(k-1), 30000) ms and at
\* most min(1.1 * baseDelay * 2^(k-1), 30000) ms.
C19_BackoffBounds ==
  run.executor \in {"execute", "backoff"} =>
    \A i \in DOMAIN trace :
      trace[i].type = "sleep" =>
        LET k == CountBefore("sleep", i) + 1
            exponentialDelay == run.baseDelay * Pow2(k - 1)
        IN  /\ trace[i].a >= Min(exponentialDelay, 30000)
            /\ 10 * trace[i].a <= Min(11 * exponentialDelay, 300000)
            /\ run.executor = "backoff" =>
                 trace[i].a = Min(exponentialDelay, 30000)

\* a first sleep with jitter and a second sleep at the cap
C19_Witness ==
  /\ run.executor = "execute"
  /\ run.baseDelay = 16000
  /\ \E i, j \in DOMAIN trace :
       /\ i < j
       /\ trace[i].type = "sleep" /\ trace[i].a = 16800
       /\ trace[j].type = "sleep" /\ trace[j].a = 30000

\* C20: in a run of executeWithErrorHandling onRetry(k, maxRetries) fires
\* once, immediately before the k-th re-invocation, and never before the
\* first invocation; onSuccess(result, k) fires once exactly when the run
\* resolves, k being the number of failed attempts; onError fires once
\* exactly when the run rejects.
C20_HooksAtTransitions ==
  run.executor = "execute" =>
    /\ \A i \in DOMAIN trace :
         /\ trace[i].type = "onRetry" =>
              /\ i < Len(trace)
              /\ trace[i + 1].type = "call"
              /\ trace[i].a = CountBefore("call", i)
              /\ trace[i].a >= 1
              /\ trace[i].b = run.budget
         /\ trace[i].type = "call" =>
              IF CountBefore("call", i) = 0
              THEN i = 1
              ELSE trace[i - 1] = Event("onRetry", CountBefore("call", i), run.budget)
         /\ trace[i].type = "onSuccess" => trace[i].a = Len(failures)
    /\ CountType("onSuccess") = (IF pc = "resolved" THEN 1 ELSE 0)
    /\ CountType("onError") = (IF pc = "rejected" THEN 1 ELSE 0)

\* a run that resolves at its second retry
C20_Witness ==
  /\ run.executor = "execute"
  /\ pc = "resolved"
  /\ Len(failures) = 2
  /\ CountType("onRetry") = 2
  /\ trace[Len(trace)] = Event("onSuccess", 2, 0)

\* the sub-calls of the awaited attempt that resolved with a valid URL
ValidCalls == {i \in DOMAIN results : results[i] = ImageResult(i)}

\* C30: when some but not all sub-calls of an attempt of
\* generateImagesWithRetry resolve with a valid URL and the others with a null
\* or malformed result, the function returns exactly the valid URLs in
\* sub-call order, without a null entry, and the attempt is its last.
C30_PartialSuccess ==
  ( /\ run.executor = "generate"
    /\ results # <<>>
    /\ ValidCalls # {}
    /\ ValidCalls # DOMAIN results ) =>
      /\ pc = "resolved"
      /\ thrown = NoError
      /\ Len(returned) = Cardinality(ValidCalls)
      /\ \A j \in DOMAIN returned : returned[j] \in ValidCalls
      /\ \A j, k \in DOMAIN returned : j < k => returned[j] < returned[k]
      /\ trace[Len(trace)] = Event("call", run.numImages, 0)

\* four images asked, the second sub-call resolving with null
C30_Witness ==
  /\ run.executor = "generate"
  /\ run.numImages = 4
  /\ pc = "resolved"
  /\ results = <<ImageResult(1), NullResult, ImageResult(3), ImageResult(4)>>
  /\ returned = <<1, 3, 4>>

-----------------------------------------------------------------------------
(* Properties of the hook and of the deduplicator *)

\* C21: a generation whose fetch was in flight when cancelGeneration was
\* called issues no further fetch, and does not end with a retryable error.
C21_CancelIsTerminal ==
  \A c \in DOMAIN calls :
    calls[c].fetchesAtCancel > 0 =>
      /\ calls[c].fetches = calls[c].fetchesAtCancel
      /\ calls[c].pc = "rejected" => ~calls[c].thrown.retryable

\* C22: a run of executeWithErrorHandling that waits in a backoff sleep has a
\* pending timer to end the sleep: no clearError, cancelGeneration or new run
\* leaves it waiting for a timer that was cleared, which it would forever.
C22_SleepAlwaysEnds ==
  \A c \in DOMAIN calls :
    calls[c].pc = "sleeping" => timers[calls[c].timer].state = "pending"

\* C23: no step of a cancelled generation changes images, metadata or
\* generationId, writes a cache entry or sets loading.
C23_CancelledDiscarded ==
  [][\A c \in DOMAIN calls :
       (calls[c].cancelled /\ calls'[c].pc # calls[c].pc) =>
         /\ hook'.images = hook.images
         /\ hook'.metadata = hook.metadata
         /\ hook'.generationId = hook.generationId
         /\ generationHistory' = generationHistory
         /\ hook'.loading => hook.loading]_vars

\* the requests the wrapped function was invoked for and that were never
\* joined by a later call: one per call that found no request in flight
Invoking == {c \in DOMAIN dedupCalls : ~dedupCalls[c].joined}

\* C24: requestFn has at most one request in flight per key; a call made
\* while a request for its key is in flight invokes nothing and shares that
\* request and its outcome; every other call invokes requestFn, so that
\* calls with different keys never share a request.
C24_OneInFlightPerKey ==
  /\ \A a \in DedupArgs : Cardinality(InFlight(stringifyArgs(a))) <= 1
  /\ Len(promises) = Cardinality(Invoking)
  /\ \A c \in DOMAIN dedupCalls :
       LET p == dedupCalls[c].promise
       IN  /\ p \in DOMAIN promises
           /\ promises[p].key = dedupCalls[c].key
           /\ dedupCalls[c].joined =>
                \E d \in Invoking : d < c /\ dedupCalls[d].promise = p
           /\ promises[p].state = "pending" => dedupCalls[c].state = "pending"
           /\ promises[p].state # "pending" =>
                /\ dedupCalls[c].value = promises[p].value
                /\ dedupCalls[c].state =
                     (IF promises[p].state = "fulfilled" THEN "fulfilled" ELSE "rejected")
  /\ \A c, d \in DOMAIN dedupCalls :
       dedupCalls[c].key # dedupCalls[d].key =>
         dedupCalls[c].promise # dedupCalls[d].promise

\* three calls with one key share one fulfilled request, a call with the
\* other key has its own
C24_Witness ==
  /\ Len(dedupCalls) = 4
  /\ Len(promises) = 2
  /\ \E c1, c2, c3 \in DOMAIN dedupCalls :
       /\ c1 < c2 /\ c2 < c3
       /\ dedupCalls[c2].joined /\ dedupCalls[c3].joined
       /\ dedupCalls[c1].promise = dedupCalls[c2].promise
       /\ dedupCalls[c2].promise = dedupCalls[c3].promise
       /\ dedupCalls[c1].state = "fulfilled"
       /\ dedupCalls[c3].state = "fulfilled"

\* C25: a generateImages call that starts while an earlier call with the
\* same normalized prompt has not settled issues no fetch of its own, and
\* both resolve to the same result.
C25_OverlappingShareFetch ==
  \A d \in DOMAIN calls :
    ( /\ calls[d].kind = "generate"
      /\ calls[d].pc # "invalid"
      /\ ~calls[d].options.forceRegenerate ) =>
      \A c \in calls[d].overlapped :
        /\ calls[d].fetches = 0
        /\ (calls[c].pc = "resolved" /\ calls[d].pc = "resolved") =>
             calls[c].value = calls[d].value

\* C26: a step in which a request of the hook fails leaves the cache as it
\* was, releases the request reference and hands the failure to the retry
\* executor, which rejects or sleeps; no cache entry ever comes from a failed
\* request.  A step in which a deduplicated request fails removes the key's
\* pending entry and rejects every caller with that failure, and a call that
\* finds no request in flight for its key invokes requestFn.
C26_FailuresNotCached ==
  [][/\ \A r \in DOMAIN requests :
          (requests[r].state # "failed" /\ requests'[r].state = "failed") =>
            /\ generationHistory' = generationHistory
            /\ currentRequestRef' # r
            /\ calls'[requests[r].call].pc \in {"rejected", "sleeping"}
            /\ calls'[requests[r].call].pc = "rejected" =>
                 /\ calls'[requests[r].call].thrown # NoError
                 /\ hookError' # NoError
     /\ \A k \in DOMAIN generationHistory' :
          requests'[generationHistory'[k].generationId].state = "ok"
     /\ \A p \in DOMAIN promises :
          (promises[p].state = "pending" /\ promises'[p].state = "rejected") =>
            /\ promises[p].key \notin DOMAIN pendingRequests'
            /\ \A c \in DOMAIN dedupCalls :
                 dedupCalls[c].promise = p =>
                   dedupCalls'[c].state = "rejected" /\ dedupCalls'[c].value = p
     /\ \A a \in DedupArgs :
          ( /\ Len(dedupCalls') = Len(dedupCalls) + 1
            /\ dedupCalls'[Len(dedupCalls')].args = a
            /\ InFlight(stringifyArgs(a)) = {} ) =>
              Len(promises') = Len(promises) + 1
    ]_vars

\* a generation was rejected, nothing was cached, and the next call with the
\* same prompt has issued a fetch
C26_Witness ==
  /\ Len(calls) = 2
  /\ calls[1].pc = "rejected"
  /\ calls[2].prompt = calls[1].prompt
  /\ calls[2].pc = "fetching"
  /\ generationHistory = <<>>
  /\ requests[calls[2].request].state = "pending"

\* the entry generateImages finds fresh for a prompt, by the claim's rule
FreshEntry(prompt) ==
  /\ normalizedPrompt(prompt) \in DOMAIN generationHistory
  /\ now - generationHistory[normalizedPrompt(prompt)].timestamp < 300000

\* C27: a generateImages call with a valid prompt is served from the cache,
\* issuing no fetch and leaving loading as it was, if and only if an entry
\* for the normalized prompt exists that is less than 300000 ms old and
\* forceRegenerate is not set; otherwise the call issues a fetch.
C27_ServedIffFresh ==
  [][(Len(calls') = Len(calls) + 1 /\ calls'[Len(calls')].kind = "generate"
      /\ calls'[Len(calls')].pc # "invalid") =>
       LET d == calls'[Len(calls')]
           served == d.pc = "served"
       IN  /\ served <=> (FreshEntry(d.prompt) /\ ~d.options.forceRegenerate)
           /\ served =>
                /\ requests' = requests
                /\ hook'.loading = hook.loading
                /\ hook'.generationId =
                     generationHistory[normalizedPrompt(d.prompt)].generationId
                /\ d.value.generationId = hook'.generationId
           /\ ~served =>
                /\ Len(requests') = Len(requests) + 1
                /\ requests'[Len(requests')].state = "pending"
                /\ hook'.loading
    ]_vars

\* an entry aged exactly 300000 ms was not served: the call is fetching
C27_Witness ==
  /\ Len(calls) = 2
  /\ calls[1].pc = "resolved"
  /\ calls[2].kind = "generate"
  /\ calls[2].pc = "fetching"
  /\ ~calls[2].options.forceRegenerate
  /\ normalizedPrompt(calls[2].prompt) \in DOMAIN generationHistory
  /\ now - generationHistory[normalizedPrompt(calls[2].prompt)].timestamp = 300000

\* C28: a call is answered from the cache only with a result that was
\* generated for its own options.
C28_KeyCoversOptions ==
  \A c \in DOMAIN calls :
    calls[c].pc = "served" =>
      calls[c].value.images[1].seed = calls[c].options.seed

\* the distinct keys of the valid prompts generateImages is called with
HookKeys ==
  {normalizedPrompt(i[1]) : i \in {j \in HookInputs : hookValidatePrompt(j[1]).valid}}

\* C29: the number of cache entries stays within a capacity that is smaller
\* than the number of distinct keys generated.
C29_BoundedCache ==
  Cardinality(DOMAIN generationHistory) < Cardinality(HookKeys)

-----------------------------------------------------------------------------
(* Properties of the fan-out of generateImagesWithRetry *)

\* the races of the attempt awaited last that rejected
RejectedCalls == {i \in DOMAIN settled : settled[i] \in {"rejected", "timeout"}}

\* C31: when exactly one of the n sub-calls of an attempt rejects (provider
\* error or per-call timeout) and the other n - 1 resolve with valid URLs,
\* generateImagesWithRetry returns those n - 1 URLs from that attempt, without
\* throwing and without running the batch again.
C31_OneRejectionTolerated ==
  ( /\ run.executor = "generate"
    /\ run.numImages > 1
    /\ Cardinality(RejectedCalls) = 1
    /\ \A i \in DOMAIN settled : i \notin RejectedCalls => settled[i] = "ok" ) =>
      /\ pc = "resolved"
      /\ Len(returned) = run.numImages - 1

\* the response of the handler to the error generateImagesWithRetry threw
thrownResponse == processApiError(thrown)

\* C32: when no sub-call of any attempt of the budget yields a valid URL,
\* whether the sub-calls reject or resolve with invalid results, the handler
\* responds with category generation, retryable and status 422; a successful
\* run carries between 1 and n image URLs.
C32_TotalFailureIsGeneration ==
  run.executor = "generate" =>
    /\ (pc = "rejected" /\ attempts = run.budget /\ ~yielded) =>
         /\ thrownResponse.category = "generation"
         /\ thrownResponse.retryable
         /\ thrownResponse.status = 422
    /\ pc = "resolved" =>
         /\ Len(returned) >= 1
         /\ Len(returned) <= run.numImages

\* C33: the n sub-calls of one attempt use the seeds baseSeed, baseSeed + 1,
\* ..., baseSeed + n - 1 for a single baseSeed, which is options.seed when
\* given, so the seeds of one attempt are pairwise distinct.
C33_SeedsConsecutive ==
  seeds # <<>> =>
    /\ \A i \in DOMAIN seeds : seeds[i] = seeds[1] + (i - 1)
    /\ seedInput.seed # Undefined => seeds[1] = seedInput.seed
    /\ \A i, j \in DOMAIN seeds : i # j => seeds[i] # seeds[j]

\* the fal.run calls the run has issued
ProviderCalls ==
  CountType("call") * run.numImages

C35_Terminates == <>(pc \in {"resolved", "rejected"})

\* a run that ended although no call of its three attempts ever settled
C35_Witness ==
  /\ run.executor = "generate"
  /\ run.budget = 2
  /\ pc = "rejected"
  /\ Len(failures) = 3
  /\ \A i \in DOMAIN failures : failures[i] = TimeoutError
  /\ \A i \in DOMAIN settled : settled[i] = "timeout"

-----------------------------------------------------------------------------
(* Properties of the bucket sweep and of instances sharing the store *)

\* the buckets cleanup takes for expired at the current instant
Idle(store) ==
  { k \in DOMAIN store : now - store[k].lastRefill > 2 * limiter.windowMs }

\* C36: cleanup removes exactly the buckets with now - lastRefill >
\* 2 * windowMs, a bucket that is not idle is never removed, and for every key
\* checkRateLimit returns what it would return had cleanup never run.
C36_CleanupUnobservable ==
  /\ DOMAIN cleanup(limiter, rateLimitStore, now) =
       (DOMAIN rateLimitStore) \ Idle(rateLimitStore)
  /\ \A k \in DOMAIN keptStore :
       IF k \in DOMAIN rateLimitStore
       THEN rateLimitStore[k] = keptStore[k]
       ELSE k \in Idle(keptStore)
  /\ \A k \in Keys :
       checkRateLimit(limiter, rateLimitStore, k, now).result =
         checkRateLimit(limiter, keptStore, k, now).result

\* cleanup has removed the spent bucket of a key that calls again
C36_Witness ==
  /\ Key1 \in DOMAIN keptStore
  /\ Key1 \notin DOMAIN rateLimitStore
  /\ keptStore[Key1].tokens = 0
  /\ callLog[Key1] # <<>>

\* C40: whichever instances have created or updated the bucket of a key,
\* each allowed result an instance returns has remaining <= limit - 1, limit
\* being the maxRequests of the instance that returned it.
C40_SharedStoreKeepsBounds ==
  \A k \in Keys : \A i \in DOMAIN callLog[k] :
    callLog[k][i].result.allowed =>
      callLog[k][i].result.remaining <= callLog[k][i].result.limit - 1

-----------------------------------------------------------------------------
(* Properties of the hook's handling of invalid and superseded requests *)

\* C37: when the first failure of the hook's operation is the API handler's
\* answer 400 with category validation, whichever validation message it
\* carries, the operation has been invoked once, the run has ended with that
\* error and no retry is waited for.
C37_InvalidNotRetried ==
  ( /\ run.executor = "execute"
    /\ run.autoRetry
    /\ failures # <<>>
    /\ failures[1] \in ServerRejections ) =>
      /\ pc = "rejected"
      /\ CountType("call") = 1
      /\ CountType("sleep") = 0

\* C38: when the latest generateImages call failed the hook's prompt
\* validation and no earlier call is under way, the call has issued no fetch,
\* loading is false, and the error of the hook has category validation and is
\* not retryable.
C38_LocalValidationError ==
  ( /\ calls # <<>>
    /\ calls[Len(calls)].pc = "invalid"
    /\ \A d \in DOMAIN calls : ~Unsettled(d) ) =>
      /\ calls[Len(calls)].fetches = 0
      /\ \A r \in DOMAIN requests : requests[r].call # Len(calls)
      /\ ~hook.loading
      /\ hookError.category = "validation"
      /\ ~hookError.retryable

\* the fetches in flight
PendingRequests == {r \in DOMAIN requests : requests[r].state = "pending"}

\* C39: once a later call has issued a fetch, an earlier call issues none (the
\* earlier call was superseded and its fetch aborted), at most one fetch is
\* in flight, and when every call has settled and the call that fetched last
\* has resolved, the images displayed are that call's.
C39_SupersededStays ==
  /\ \A r1, r2 \in DOMAIN requests :
       r1 < r2 => requests[r1].call <= requests[r2].call
  /\ Cardinality(PendingRequests) <= 1
  /\ ( /\ requests # <<>>
       /\ \A d \in DOMAIN calls : ~Unsettled(d) ) =>
         LET b == requests[Len(requests)].call
         IN  calls[b].pc = "resolved" => hook.images = calls[b].value.images

====
